---- MODULE Spec2Model ----
(***************************************************************************)
(* The belief-range market of src/bin/lazyhack.rs: contracts, players,     *)
(* the IOU ledger, the exposure calculus and the matching session; and the *)
(* market service of src/server.rs and src/market: HTTP calls, the request *)
(* channel, the worker thread and the tables of the database.              *)
(* Names (String in the source) are integers here; their numeric order     *)
(* stands for the alphabetical order of the strings.  ContractID(n) and    *)
(* PlayerID(n) are the 0-based positions n of the two Vecs.                *)
(***************************************************************************)
EXTENDS Integers, Sequences, FiniteSets, TLC

VARIABLES
    contract_names,  \* Market.contract_names : name -> ContractID
    player_names,    \* Market.player_names   : name -> PlayerID
    contracts,       \* Market.contracts      : Vec<Contract>
    players,         \* Market.players        : Vec<Player>
    ious,            \* Market.ious           : Vec<Iou>, the committed ledger
    session,         \* the Session value owned by a running Market::session
    pc,              \* "idle", or "loop" while Market::session is in its loop
    failure,         \* NoFailure, or the panic that stopped the process
    db,              \* the tables behind market::Market.db
    returned,        \* the last call of a direct caller (Market::do_request, ArgList::from) and its result
    channel,         \* the messages queued in the mpsc channel of run_server
    calls,           \* the HTTP calls of Server::call, each with its oneshot channel
    worker,          \* the position and the locals of work_thread
    history          \* the calls in the order sent, received and finished

lazyhack_vars == <<contract_names, player_names, contracts, players, ious, session, pc, failure>>
service_vars == <<db, returned, channel, calls, worker, history>>
vars == <<lazyhack_vars, service_vars>>

(***************************************************************************)
(* Bounds of the model.                                                    *)
(***************************************************************************)
ContractNamePool == {1, 2}
PlayerNamePool == {1, 2}
\* the (low, high) pairs a declaration may carry
PriceRanges == {<<20, 40>>, <<40, 60>>}
\* the amounts increment_credit is called with (main passes 1000 before every session)
CreditAmounts == {1000}
\* increment_credit is not called once a credit limit would exceed MaxCreditSteps thousands
MaxCreditSteps == 1
\* a session is not started once the ledger holds this many IOUs
MaxIous == 5
\* the loop of a session is not continued after this many trades
MaxTrades == 6

(***************************************************************************)
(* Values.                                                                 *)
(***************************************************************************)
None == <<>>
Some(x) == <<x>>

NoFailure == "none"
PanicContractExists == "139: contract already exists"
PanicPlayerExists == "148: player already exists"
PanicNoSuchContract == "161: no such contract"
PanicOutcomeAlreadySet == "166: contract already has outcome"
PanicNoSuchPlayer == "208: no such player"
PanicContractDoesNotExist == "214: contract does not exist"
PanicRangeOnResolved == "218: contract already has outcome"
PanicInvalidRange == "221: invalid range"
PanicCreditExposed == "345: exposed"
PanicExposureMismatch == "385: exposure does not match"
PanicDivideByZeroBuyer == "433: attempt to divide by zero"
PanicDivideByZeroSeller == "442: attempt to divide by zero"
PanicTradeUnits == "452: trade_units"
PanicYouSaidNoTrades == "774: you said no trades"

If(contract_id) == [tag |-> "If", contract_id |-> contract_id]
Not(contract_id) == [tag |-> "Not", contract_id |-> contract_id]
Void(condition) == [tag |-> "Void", condition |-> condition]
True(condition) == [tag |-> "True", condition |-> condition]
Unknown(condition) == [tag |-> "Unknown", condition |-> condition]

Iou(issuer_id, holder_id, status, amount) ==
    [issuer_id |-> issuer_id, holder_id |-> holder_id, status |-> status, amount |-> amount]

Contract_new(name) == [name |-> name, outcome |-> None]
Player_new(name) == [name |-> name, ranges |-> <<>>, credit_limit |-> 0]
Exposure_new == [unconditional |-> 0, conditional |-> <<>>]
ContractExposure_zero == [exposure |-> 0, neg_exposure |-> 0]
NoSession == [exposures |-> <<>>, ious |-> <<>>, trades |-> <<>>]

(***************************************************************************)
(* Helpers for BTreeMap, Vec and the integer arithmetic of the source.     *)
(***************************************************************************)
MapInsert(m, k, v) == [x \in DOMAIN m \cup {k} |-> IF x = k THEN v ELSE m[x]]
MapRemoveNothing(m, k) == m

MapRemove(m, k) == [x \in DOMAIN m \ {k} |-> m[x]]
MapValues(m) == {m[k] : k \in DOMAIN m}

Max2(a, b) == IF a >= b THEN a ELSE b
Min2Swapped(a, b) == IF a <= b THEN b ELSE a

Min2(a, b) == IF a <= b THEN a ELSE b
MaxOf(S) == CHOOSE x \in S : \A y \in S : y <= x
MinOf(S) == CHOOSE x \in S : \A y \in S : x <= y

\* i32 division truncates toward zero
Div(a, b) ==
    IF (a >= 0) = (b > 0)
    THEN (IF a >= 0 THEN a ELSE -a) \div (IF b > 0 THEN b ELSE -b)
    ELSE -((IF a >= 0 THEN a ELSE -a) \div (IF b > 0 THEN b ELSE -b))

\* derived Ord of tuples: lexicographic
TupleLess(a, b) ==
    \E i \in 1..Len(a) : a[i] < b[i] /\ \A j \in 1..(i - 1) : a[j] = b[j]

RECURSIVE SortTuples(_)
SortTuples(S) ==
    IF S = {} THEN <<>>
    ELSE LET first == CHOOSE x \in S : \A y \in S : y = x \/ TupleLess(x, y)
         IN <<first>> \o SortTuples(S \ {first})

RECURSIVE Reverse(_)
Reverse(s) == IF s = <<>> THEN <<>> ELSE Append(Reverse(Tail(s)), Head(s))

get_contract(contract_id) == contracts[contract_id + 1]
get_player(player_id) == players[player_id + 1]

(***************************************************************************)
(* Exposure.                                                               *)
(***************************************************************************)
add_exposure(e, contract_id, amount) ==
    [e EXCEPT !.conditional =
        IF contract_id \in DOMAIN e.conditional
        THEN [e.conditional EXCEPT ![contract_id].exposure = @ + amount]
        ELSE MapInsert(e.conditional, contract_id,
                       [exposure |-> amount, neg_exposure |-> 0])]

add_neg_exposure(e, contract_id, amount) ==
    [e EXCEPT !.conditional =
        IF contract_id \in DOMAIN e.conditional
        THEN [e.conditional EXCEPT ![contract_id].neg_exposure = @ + amount]
        ELSE MapInsert(e.conditional, contract_id,
                       [exposure |-> 0, neg_exposure |-> amount])]

apply_iou_issuer(e, status, amount) ==
    CASE status.tag = "Void" -> e
      [] status.tag = "True" -> [e EXCEPT !.unconditional = @ + amount]
      [] status.tag = "Unknown" /\ status.condition.tag = "If" ->
            add_exposure(e, status.condition.contract_id, amount)
      [] status.tag = "Unknown" /\ status.condition.tag = "Not" ->
            add_neg_exposure(e, status.condition.contract_id, amount)

apply_iou_holder_keeping_true(e, status, amount) ==
    CASE status.tag = "Void" -> e
      [] status.tag = "True" -> e
      [] status.tag = "Unknown" /\ status.condition.tag = "If" ->
            add_exposure(e, status.condition.contract_id, -amount)
      [] status.tag = "Unknown" /\ status.condition.tag = "Not" ->
            add_neg_exposure(e, status.condition.contract_id, -amount)

apply_iou_holder(e, status, amount) ==
    CASE status.tag = "Void" -> e
      [] status.tag = "True" -> [e EXCEPT !.unconditional = @ - amount]
      [] status.tag = "Unknown" /\ status.condition.tag = "If" ->
            add_exposure(e, status.condition.contract_id, -amount)
      [] status.tag = "Unknown" /\ status.condition.tag = "Not" ->
            add_neg_exposure(e, status.condition.contract_id, -amount)

contract_exposure(e, contract_id) ==
    IF contract_id \in DOMAIN e.conditional
    THEN e.conditional[contract_id]
    ELSE ContractExposure_zero

exposure(e, contract_id) == contract_exposure(e, contract_id).exposure
neg_exposure(e, contract_id) == contract_exposure(e, contract_id).neg_exposure

RECURSIVE SumNegExposure(_, _)
SumNegExposure(conditional, S) ==
    IF S = {} THEN 0
    ELSE LET c == CHOOSE x \in S : TRUE
         IN conditional[c].neg_exposure + SumNegExposure(conditional, S \ {c})

total_neg_exposure(e) ==
    SumNegExposure(e.conditional, DOMAIN e.conditional) + e.unconditional

total_exposure_to_contract_netted(e, contract_id) ==
    exposure(e, contract_id) + total_neg_exposure(e)

total_exposure_to_contract(e, contract_id) ==
    exposure(e, contract_id) + total_neg_exposure(e) - neg_exposure(e, contract_id)

total_exposure_to_contract_neg_unfiltered(e, contract_id) ==
    LET all == {e.conditional[c].exposure - e.conditional[c].neg_exposure :
                   c \in DOMAIN e.conditional}
    IN total_neg_exposure(e) + Max2(0, IF all = {} THEN 0 ELSE MaxOf(all))

total_exposure_to_contract_neg(e, contract_id) ==
    LET others == {e.conditional[c].exposure - e.conditional[c].neg_exposure :
                      c \in DOMAIN e.conditional \ {contract_id}}
    IN total_neg_exposure(e) + Max2(0, IF others = {} THEN 0 ELSE MaxOf(others))

Exposure_outcome(e, contract_id) == 0 - total_exposure_to_contract(e, contract_id)
Exposure_otherwise_outcome(e) == 0 - total_neg_exposure(e)

RECURSIVE calc_exposure_from(_, _, _)
calc_exposure_from(e, list, player_id) ==
    IF list = <<>> THEN e
    ELSE LET iou == Head(list)
             e1 == IF iou.issuer_id = player_id
                   THEN apply_iou_issuer(e, iou.status, iou.amount)
                   ELSE IF iou.holder_id = player_id
                        THEN apply_iou_holder(e, iou.status, iou.amount)
                        ELSE e
         IN calc_exposure_from(e1, Tail(list), player_id)

calc_exposure(player_id) == calc_exposure_from(Exposure_new, ious, player_id)

(***************************************************************************)
(* The market service: the values of src/market/types.rs and msgs.rs.      *)
(* An ID (a UUID string in the source) is a positive integer, a user name  *)
(* is the sequence of its characters, Dollars are millidollars.            *)
(***************************************************************************)
ZERO == 0
ONE == 1000

LowerCase == {"a", "b"}
UpperCase == {"A", "B"}
Digits == {"1"}

is_ascii_alphanumeric(c) == c \in LowerCase \cup UpperCase \cup Digits

to_ascii_lowercase(c) ==
    CASE c = "A" -> "a"
      [] c = "B" -> "b"
      [] OTHER -> c

valid_user_name_char(c) == is_ascii_alphanumeric(c) \/ c = "_" \/ c = "-" \/ c = "."

user_name_stripped(user_name) ==
    LET kept == SelectSeq(user_name, is_ascii_alphanumeric)
    IN  [i \in 1..Len(kept) |-> to_ascii_lowercase(kept[i])]

valid_user_name_stripped(user_name) ==
    IF \A i \in 1..Len(user_name) : valid_user_name_char(user_name[i])
    THEN IF user_name_stripped(user_name) = <<>>
         THEN None
         ELSE Some(user_name_stripped(user_name))
    ELSE None

User(user_name) == [user_name |-> user_name, user_locked |-> FALSE]

IOU(issuer, holder, value, cond_id, cond_flag, split, void) ==
    [iou_issuer |-> issuer, iou_holder |-> holder, iou_value |-> value,
     iou_cond_id |-> cond_id, iou_cond_flag |-> cond_flag, iou_cond_time |-> None,
     iou_split |-> split, iou_void |-> void]

OfferDetails(buy_price, sell_price) ==
    [offer_buy_price |-> buy_price, offer_sell_price |-> sell_price,
     offer_buy_quantity |-> 100, offer_sell_quantity |-> 200]

Offer(user, cond_id, details) ==
    [offer_user |-> user, offer_cond_id |-> cond_id, offer_cond_time |-> None,
     offer_details |-> details]

OfferDetails_valid(details) ==
    /\ ZERO <= details.offer_buy_price
    /\ details.offer_buy_price < details.offer_sell_price
    /\ details.offer_sell_price <= ONE

IOU_valid(iou) == iou.iou_value > ZERO

transfer_shares_positive(holders, pending, total) ==
    \A user_id \in pending : holders[user_id] > ZERO

\* Transfer::valid: the holders are visited in the order of the map
RECURSIVE transfer_shares_valid(_, _, _)
transfer_shares_valid(holders, pending, total) ==
    IF pending = {}
    THEN total = ZERO
    ELSE LET user_id == CHOOSE k \in pending : \A other \in pending : k <= other
             value == holders[user_id]
         IN  IF value <= ZERO
             THEN FALSE
             ELSE IF value > total
                  THEN FALSE
                  ELSE transfer_shares_valid(holders, pending \ {user_id}, total - value)

Transfer_valid(transfer, old_iou) ==
    IF old_iou.iou_void
    THEN FALSE
    ELSE transfer_shares_valid(transfer.holders, DOMAIN transfer.holders, old_iou.iou_value)

make_ious_never_void(transfer, old_id, old_iou) ==
    [user_id \in DOMAIN transfer.holders |->
        IOU(old_iou.iou_issuer, user_id, transfer.holders[user_id],
            old_iou.iou_cond_id, old_iou.iou_cond_flag, Some(old_id), FALSE)]

\* Transfer::make_ious: the replacement of each holder
make_ious(transfer, old_id, old_iou) ==
    [user_id \in DOMAIN transfer.holders |->
        IOU(old_iou.iou_issuer, user_id, transfer.holders[user_id],
            old_iou.iou_cond_id, old_iou.iou_cond_flag, Some(old_id),
            user_id = old_iou.iou_issuer)]

\* msgs::Request
CreateUser(user_name) == [type |-> "Create", item |-> "User", fields |-> User(user_name)]
CreateIOU(iou) == [type |-> "Create", item |-> "IOU", fields |-> iou]
CreateOffer(offer) == [type |-> "Create", item |-> "Offer", fields |-> offer]
UpdateOffer(id, details) == [type |-> "Update", id |-> id, item_update |-> "Offer", fields |-> details]
UpdateTransfer(id, holders) ==
    [type |-> "Update", id |-> id, item_update |-> "Transfer", fields |-> [holders |-> holders]]
UpdateVoid(id) == [type |-> "Update", id |-> id, item_update |-> "Void", fields |-> None]
QueryAllUser == [type |-> "Query", query |-> "AllUser"]
QueryAllIOU == [type |-> "Query", query |-> "AllIOU"]

\* msgs::Response and msgs::Error
Created(id) == [type |-> "Created", id |-> id]
Updated == [type |-> "Updated"]
Items(items) == [type |-> "Items", items |-> items]
Error(error) == [type |-> "Error", error |-> error]
InvalidUserName == "InvalidUserName"
CannotCreateUser == "CannotCreateUser"
InvalidOfferDetails == "InvalidOfferDetails"

(***************************************************************************)
(* The tables of src/market/tables.rs.  A table is a function from the IDs *)
(* of its rows to their fields; ids counts the IDs given out by ID::new.   *)
(* A statement that SQLite refuses (a missing row, a reference to a row    *)
(* that does not exist) fails the request.                                 *)
(***************************************************************************)
Done(result, d) == [ok |-> TRUE, result |-> result, db |-> d]
Failed(d) == [ok |-> FALSE, result |-> None, db |-> d]

ID_new(d) == d.ids + 1

insert_user(d, user) ==
    IF \E id \in DOMAIN d.user :
          \/ d.user[id].user_name = user.user_name
          \/ user_name_stripped(d.user[id].user_name) = user_name_stripped(user.user_name)
    THEN Failed(d)
    ELSE Done(ID_new(d), [d EXCEPT !.user = MapInsert(d.user, ID_new(d), user), !.ids = ID_new(d)])

by_user_name(d, user_name) ==
    \E id \in DOMAIN d.user : d.user[id].user_name = user_name

by_user_name_stripped(d, stripped) ==
    \E id \in DOMAIN d.user : user_name_stripped(d.user[id].user_name) = stripped

insert_iou(d, iou) ==
    IF /\ iou.iou_issuer \in DOMAIN d.user
       /\ iou.iou_holder \in DOMAIN d.user
       /\ (iou.iou_cond_id # None => iou.iou_cond_id[1] \in d.cond)
       /\ (iou.iou_split # None => iou.iou_split[1] \in DOMAIN d.iou)
    THEN Done(ID_new(d), [d EXCEPT !.iou = MapInsert(d.iou, ID_new(d), iou), !.ids = ID_new(d)])
    ELSE Failed(d)

void_iou(d, id) ==
    IF id \in DOMAIN d.iou /\ ~d.iou[id].iou_void
    THEN Done(None, [d EXCEPT !.iou[id].iou_void = TRUE])
    ELSE Failed(d)

insert_offer(d, offer) ==
    IF offer.offer_user \in DOMAIN d.user /\ offer.offer_cond_id \in d.cond
    THEN Done(ID_new(d), [d EXCEPT !.offer = MapInsert(d.offer, ID_new(d), offer), !.ids = ID_new(d)])
    ELSE Failed(d)

update_offer(d, id, details) ==
    IF id \in DOMAIN d.offer
    THEN Done(None, [d EXCEPT !.offer[id].offer_details = details])
    ELSE Failed(d)

(***************************************************************************)
(* Market of src/market/mod.rs.  Every operation gives Done(result, db) or *)
(* Failed(db): the Err of the source, which ends the caller.               *)
(***************************************************************************)
do_create(d, request) ==
    CASE request.item = "User" ->
            IF valid_user_name_stripped(request.fields.user_name) # None
            THEN IF by_user_name_stripped(d, valid_user_name_stripped(request.fields.user_name)[1])
                 THEN Done(Error(CannotCreateUser), d)
                 ELSE LET inserted == insert_user(d, request.fields)
                      IN  IF inserted.ok
                          THEN Done(Created(inserted.result), inserted.db)
                          ELSE Failed(d)
            ELSE Done(Error(InvalidUserName), d)
      [] request.item = "IOU" ->
            IF ~IOU_valid(request.fields)
            THEN Failed(d)
            ELSE LET inserted == insert_iou(d, request.fields)
                 IN  IF inserted.ok
                     THEN Done(Created(inserted.result), inserted.db)
                     ELSE Failed(d)
      [] request.item = "Offer" ->
            IF OfferDetails_valid(request.fields.offer_details)
            THEN LET inserted == insert_offer(d, request.fields)
                 IN  IF inserted.ok
                     THEN Done(Created(inserted.result), inserted.db)
                     ELSE Failed(d)
            ELSE Done(Error(InvalidOfferDetails), d)

\* the inserts of do_iou_transfer, in the order of the map; items collects the new rows
RECURSIVE insert_ious(_, _, _, _)
insert_ious(tx, new_ious, pending, items) ==
    IF pending = {}
    THEN Done(items, tx)
    ELSE LET user_id == CHOOSE k \in pending : \A other \in pending : k <= other
             inserted == insert_iou(tx, new_ious[user_id])
         IN  IF inserted.ok
             THEN insert_ious(inserted.db, new_ious, pending \ {user_id},
                              MapInsert(items, inserted.result, new_ious[user_id]))
             ELSE Failed(tx)

\* a transaction that is dropped before its commit is rolled back
do_iou_transfer_uncommitted(d, id, transfer) ==
    IF id \notin DOMAIN d.iou
    THEN Failed(d)
    ELSE IF ~Transfer_valid(transfer, d.iou[id])
         THEN Failed(d)
         ELSE LET voided == void_iou(d, id)
                  new_ious == make_ious(transfer, id, d.iou[id])
                  inserted == insert_ious(voided.db, new_ious, DOMAIN new_ious, <<>>)
              IN  IF ~voided.ok
                  THEN Failed(d)
                  ELSE IF ~inserted.ok
                       THEN Failed(inserted.db)
                       ELSE Done(inserted.result, inserted.db)

do_iou_transfer(d, id, transfer) ==
    IF id \notin DOMAIN d.iou
    THEN Failed(d)
    ELSE IF ~Transfer_valid(transfer, d.iou[id])
         THEN Failed(d)
         ELSE LET voided == void_iou(d, id)
                  new_ious == make_ious(transfer, id, d.iou[id])
                  inserted == insert_ious(voided.db, new_ious, DOMAIN new_ious, <<>>)
              IN  IF ~voided.ok
                  THEN Failed(d)
                  ELSE IF ~inserted.ok
                       THEN Failed(d)
                       ELSE Done(inserted.result, inserted.db)

do_iou_void(d, id) ==
    IF id \notin DOMAIN d.iou
    THEN Failed(d)
    ELSE IF d.iou[id].iou_void
         THEN Failed(d)
         ELSE LET voided == void_iou(d, id)
              IN  IF voided.ok
                  THEN Done(voided.db.iou[id], voided.db)
                  ELSE Failed(d)

do_update(d, request) ==
    CASE request.item_update = "Offer" ->
            IF OfferDetails_valid(request.fields)
            THEN LET updated == update_offer(d, request.id, request.fields)
                 IN  IF updated.ok
                     THEN Done(Updated, updated.db)
                     ELSE Failed(d)
            ELSE Done(Error(InvalidOfferDetails), d)
      [] request.item_update = "Transfer" ->
            LET transferred == do_iou_transfer(d, request.id, request.fields)
            IN  IF transferred.ok
                THEN Done(Items(transferred.result), transferred.db)
                ELSE transferred
      [] request.item_update = "Void" ->
            LET voided == do_iou_void(d, request.id)
            IN  IF voided.ok
                THEN Done(Items(MapInsert(<<>>, request.id, voided.result)), voided.db)
                ELSE voided

do_query(d, request) ==
    CASE request.query = "AllUser" -> Done(Items(d.user), d)
      [] request.query = "AllIOU" -> Done(Items(d.iou), d)

do_request(d, request) ==
    CASE request.type = "Create" -> do_create(d, request)
      [] request.type = "Update" -> do_update(d, request)
      [] request.type = "Query" -> do_query(d, request)

(***************************************************************************)
(* The state of the service when run_server starts: the tables of a market *)
(* in which one condition is registered, the worker thread at its recv, an *)
(* empty channel and no HTTP call under way.                               *)
(***************************************************************************)
\* the ID of the registered condition
CondId == 1
\* the HTTP calls of the model
MaxCalls == 3
CallIds == 1..MaxCalls
\* a direct caller makes no further request once this many IDs are given out
MaxIds == 5

NewCall == [state |-> "new", oneshot |-> "none", slot |-> None, status |-> 0, body |-> None]

InitOfService ==
    /\ db = [user |-> <<>>, iou |-> <<>>, offer |-> <<>>, cond |-> {CondId}, ids |-> CondId]
    /\ returned = None
    /\ channel = <<>>
    /\ calls = [c \in CallIds |-> NewCall]
    /\ worker = [pc |-> "recv", msg |-> None, response |-> None]
    /\ history = [sent |-> <<>>, received |-> <<>>, executed |-> <<>>, delivered |-> <<>>, ended |-> 0]

(***************************************************************************)
(* A direct caller of Market::do_request (main.rs).  The writes of a       *)
(* request that fails are not committed.                                   *)
(***************************************************************************)
request(req) ==
    /\ \E done \in {do_request(db, req)} :
          /\ db' = done.db
          /\ returned' = [request |-> req, ok |-> done.ok, result |-> done.result]
    /\ UNCHANGED <<lazyhack_vars, channel, calls, worker, history>>

\* the requests of a direct caller, by kind; none is made once MaxIds IDs are given out
create_user(name) ==
    /\ db.ids < MaxIds
    /\ request(CreateUser(name))

create_iou(issuer, holder, value) ==
    /\ db.ids < MaxIds
    /\ request(CreateIOU(IOU(issuer, holder, value, Some(CondId), TRUE, None, FALSE)))

create_offer(user, prices) ==
    /\ db.ids < MaxIds
    /\ request(CreateOffer(Offer(user, CondId, OfferDetails(prices[1], prices[2]))))

update_offer_details(id, prices) ==
    /\ db.ids < MaxIds
    /\ request(UpdateOffer(id, OfferDetails(prices[1], prices[2])))

update_transfer(id, holders) ==
    /\ db.ids < MaxIds
    /\ request(UpdateTransfer(id, holders))

update_void(id) ==
    /\ db.ids < MaxIds
    /\ request(UpdateVoid(id))

(***************************************************************************)
(* src/server.rs: Server::call and work_thread.                            *)
(***************************************************************************)
\* a body that is not the JSON of a Request
Malformed == [type |-> "Malformed"]

\* Server::call up to the send on the channel
call_send(c, body) ==
    /\ calls[c].state = "new"
    /\ IF body = Malformed
       THEN /\ calls' = [calls EXCEPT ![c].state = "done", ![c].status = 400]
            /\ UNCHANGED <<channel, history>>
       ELSE IF worker.pc = "exited"
            THEN /\ calls' = [calls EXCEPT ![c].state = "done", ![c].status = 500]
                 /\ UNCHANGED <<channel, history>>
            ELSE /\ channel' = Append(channel, [req |-> body, reply |-> c])
                 /\ calls' = [calls EXCEPT ![c].state = "waiting", ![c].oneshot = "open"]
                 /\ history' = [history EXCEPT !.sent = Append(@, c)]
    /\ UNCHANGED <<lazyhack_vars, db, returned, worker>>

\* Server::call from the completion of on_reply
call_reply(c) ==
    /\ calls[c].state = "waiting"
    /\ calls[c].oneshot \in {"sent", "canceled"}
    /\ calls' = [calls EXCEPT ![c] =
                    IF calls[c].oneshot = "sent"
                    THEN [@ EXCEPT !.state = "done", !.status = 200, !.body = calls[c].slot]
                    ELSE [@ EXCEPT !.state = "done", !.status = 500]]
    /\ UNCHANGED <<lazyhack_vars, db, returned, channel, worker, history>>

\* the client closes its connection: the future of the call and its on_reply are dropped
call_drop(c) ==
    /\ calls[c].state = "waiting"
    /\ calls' = [calls EXCEPT ![c].state = "done", ![c].oneshot = "closed"]
    /\ UNCHANGED <<lazyhack_vars, db, returned, channel, worker, history>>

\* work_thread returns: rx, the queued messages and their reply senders are dropped
Cancel(cs, dropped) ==
    [c \in DOMAIN cs |->
        IF c \in dropped /\ cs[c].oneshot = "open"
        THEN [cs[c] EXCEPT !.oneshot = "canceled"]
        ELSE cs[c]]

Queued == {channel[i].reply : i \in 1..Len(channel)}

work_exit ==
    /\ worker' = [pc |-> "exited", msg |-> None, response |-> None]
    /\ channel' = <<>>
    /\ calls' = Cancel(calls, Queued \cup {worker.msg.reply})
    /\ history' = [history EXCEPT !.ended = @ + 1]

work_recv_any ==
    /\ worker.pc = "recv"
    /\ \E i \in 1..Len(channel) :
          /\ worker' = [pc |-> "request", msg |-> channel[i], response |-> None]
          /\ channel' = SubSeq(channel, 1, i - 1) \o SubSeq(channel, i + 1, Len(channel))
          /\ history' = [history EXCEPT !.received = Append(@, channel[i].reply)]
    /\ UNCHANGED <<lazyhack_vars, db, returned, calls>>

work_recv ==
    /\ worker.pc = "recv"
    /\ channel # <<>>
    /\ worker' = [pc |-> "request", msg |-> Head(channel), response |-> None]
    /\ channel' = Tail(channel)
    /\ history' = [history EXCEPT !.received = Append(@, Head(channel).reply)]
    /\ UNCHANGED <<lazyhack_vars, db, returned, calls>>

work_request_continuing ==
    /\ worker.pc = "request"
    /\ IF do_request(db, worker.msg.req).ok
       THEN /\ db' = do_request(db, worker.msg.req).db
            /\ worker' = [worker EXCEPT !.pc = "reply", !.response = do_request(db, worker.msg.req).result]
            /\ history' = [history EXCEPT !.executed =
                              Append(@, [call |-> worker.msg.reply,
                                         response |-> do_request(db, worker.msg.req).result])]
            /\ UNCHANGED <<channel, calls>>
       ELSE /\ db' = do_request(db, worker.msg.req).db
            /\ worker' = [pc |-> "recv", msg |-> None, response |-> None]
            /\ calls' = Cancel(calls, {worker.msg.reply})
            /\ history' = [history EXCEPT !.ended = @ + 1]
            /\ UNCHANGED channel
    /\ UNCHANGED <<lazyhack_vars, returned>>

work_request ==
    /\ worker.pc = "request"
    /\ IF do_request(db, worker.msg.req).ok
       THEN /\ db' = do_request(db, worker.msg.req).db
            /\ worker' = [worker EXCEPT !.pc = "reply", !.response = do_request(db, worker.msg.req).result]
            /\ history' = [history EXCEPT !.executed =
                              Append(@, [call |-> worker.msg.reply,
                                         response |-> do_request(db, worker.msg.req).result])]
            /\ UNCHANGED <<channel, calls>>
       ELSE /\ db' = do_request(db, worker.msg.req).db
            /\ work_exit
    /\ UNCHANGED <<lazyhack_vars, returned>>

work_reply_any ==
    /\ worker.pc = "reply"
    /\ \E c \in CallIds :
          /\ calls[c].oneshot = "open"
          /\ calls' = [calls EXCEPT ![c].oneshot = "sent", ![c].slot = worker.response]
          /\ worker' = [pc |-> "recv", msg |-> None, response |-> None]
          /\ history' = [history EXCEPT !.delivered = Append(@, [call |-> c, response |-> worker.response]),
                                        !.ended = @ + 1]
    /\ UNCHANGED <<lazyhack_vars, db, returned, channel>>

work_reply ==
    /\ worker.pc = "reply"
    /\ IF calls[worker.msg.reply].oneshot = "open"
       THEN /\ calls' = [calls EXCEPT ![worker.msg.reply].oneshot = "sent",
                                      ![worker.msg.reply].slot = worker.response]
            /\ worker' = [pc |-> "recv", msg |-> None, response |-> None]
            /\ history' = [history EXCEPT
                              !.delivered = Append(@, [call |-> worker.msg.reply, response |-> worker.response]),
                              !.ended = @ + 1]
            /\ UNCHANGED channel
       ELSE work_exit
    /\ UNCHANGED <<lazyhack_vars, db, returned>>

(***************************************************************************)
(* Market: construction, contracts, players, ranges, credit, outcomes.     *)
(***************************************************************************)
Init ==
    /\ contract_names = <<>>
    /\ player_names = <<>>
    /\ contracts = <<>>
    /\ players = <<>>
    /\ ious = <<>>
    /\ session = NoSession
    /\ pc = "idle"
    /\ failure = NoFailure
    /\ InitOfService

Running == pc = "idle" /\ failure = NoFailure

new_contract(name) ==
    /\ Running
    /\ contract_names' = MapInsert(contract_names, name, Len(contracts))
    /\ IF name \in DOMAIN contract_names
       THEN /\ failure' = PanicContractExists
            /\ UNCHANGED contracts
       ELSE /\ contracts' = Append(contracts, Contract_new(name))
            /\ UNCHANGED failure
    /\ UNCHANGED <<player_names, players, ious, session, pc, service_vars>>

new_player(name) ==
    /\ Running
    /\ player_names' = MapInsert(player_names, name, Len(players))
    /\ IF name \in DOMAIN player_names
       THEN /\ failure' = PanicPlayerExists
            /\ UNCHANGED players
       ELSE /\ players' = Append(players, Player_new(name))
            /\ UNCHANGED failure
    /\ UNCHANGED <<contract_names, contracts, ious, session, pc, service_vars>>

OutcomeNeverChecked(contract) == FALSE

OutcomeAlreadySet(contract) == contract.outcome # None

ResolvedStatusVoiding(status, contract_id, outcome) ==
    IF status = Unknown(If(contract_id))
    THEN Void(If(contract_id))
    ELSE IF status = Unknown(Not(contract_id))
         THEN Void(Not(contract_id))
         ELSE status

ResolvedStatusNotAsIf(status, contract_id, outcome) ==
    IF status = Unknown(If(contract_id))
    THEN (IF outcome THEN True(If(contract_id)) ELSE Void(If(contract_id)))
    ELSE IF status = Unknown(Not(contract_id))
         THEN (IF outcome THEN True(Not(contract_id)) ELSE Void(Not(contract_id)))
         ELSE status

ResolvedStatus(status, contract_id, outcome) ==
    IF status = Unknown(If(contract_id))
    THEN (IF outcome THEN True(If(contract_id)) ELSE Void(If(contract_id)))
    ELSE IF status = Unknown(Not(contract_id))
         THEN (IF outcome THEN Void(Not(contract_id)) ELSE True(Not(contract_id)))
         ELSE status

contract_outcome_leaving_ious(name, outcome) ==
    /\ Running
    /\ IF name \notin DOMAIN contract_names
       THEN /\ failure' = PanicNoSuchContract
            /\ UNCHANGED <<contracts, players, ious>>
       ELSE LET contract_id == contract_names[name]
            IN IF OutcomeAlreadySet(get_contract(contract_id))
               THEN /\ failure' = PanicOutcomeAlreadySet
                    /\ UNCHANGED <<contracts, players, ious>>
               ELSE /\ contracts' = [contracts EXCEPT ![contract_id + 1].outcome = Some(outcome)]
                    /\ players' = [i \in 1..Len(players) |->
                                     [players[i] EXCEPT !.ranges = MapRemove(@, contract_id)]]
                    /\ UNCHANGED <<ious, failure>>
    /\ UNCHANGED <<contract_names, player_names, session, pc, service_vars>>

contract_outcome(name, outcome) ==
    /\ Running
    /\ IF name \notin DOMAIN contract_names
       THEN /\ failure' = PanicNoSuchContract
            /\ UNCHANGED <<contracts, players, ious>>
       ELSE LET contract_id == contract_names[name]
            IN IF OutcomeAlreadySet(get_contract(contract_id))
               THEN /\ failure' = PanicOutcomeAlreadySet
                    /\ UNCHANGED <<contracts, players, ious>>
               ELSE /\ contracts' = [contracts EXCEPT ![contract_id + 1].outcome = Some(outcome)]
                    /\ players' = [i \in 1..Len(players) |->
                                     [players[i] EXCEPT !.ranges = MapRemove(@, contract_id)]]
                    /\ ious' = [i \in 1..Len(ious) |->
                                  [ious[i] EXCEPT !.status = ResolvedStatus(@, contract_id, outcome)]]
                    /\ UNCHANGED failure
    /\ UNCHANGED <<contract_names, player_names, session, pc, service_vars>>

ValidRangeOrEqual(low, high) == 0 <= low /\ low <= high /\ high <= 100

ValidRangeNoUpper(low, high) == 0 <= low /\ low < high

ValidRange(low, high) == 0 <= low /\ low < high /\ high <= 100

\* the loop of player_ranges over the declared (contract_name, low, high)
\* triples: the ranges map when the loop ends and the panic that ended it
RECURSIVE set_ranges(_, _)
set_ranges(ranges, list) ==
    IF list = <<>> THEN [ranges |-> ranges, failure |-> NoFailure]
    ELSE LET contract_name == Head(list)[1]
             low == Head(list)[2]
             high == Head(list)[3]
         IN IF contract_name \notin DOMAIN contract_names
            THEN [ranges |-> ranges, failure |-> PanicContractDoesNotExist]
            ELSE IF get_contract(contract_names[contract_name]).outcome # None
            THEN [ranges |-> ranges, failure |-> PanicRangeOnResolved]
            ELSE IF ~ValidRange(low, high)
            THEN [ranges |-> ranges, failure |-> PanicInvalidRange]
            ELSE set_ranges(MapInsert(ranges, contract_names[contract_name], <<low, high>>),
                            Tail(list))

player_ranges_keeping(name, ranges) ==
    /\ Running
    /\ IF name \notin DOMAIN player_names
       THEN /\ failure' = PanicNoSuchPlayer
            /\ UNCHANGED players
       ELSE LET player_id == player_names[name]
                r == set_ranges(get_player(player_id).ranges, ranges)
            IN /\ players' = [players EXCEPT ![player_id + 1].ranges = r.ranges]
               /\ failure' = r.failure
    /\ UNCHANGED <<contract_names, player_names, contracts, ious, session, pc, service_vars>>

player_ranges(name, ranges) ==
    /\ Running
    /\ IF name \notin DOMAIN player_names
       THEN /\ failure' = PanicNoSuchPlayer
            /\ UNCHANGED players
       ELSE LET player_id == player_names[name]
                r == set_ranges(<<>>, ranges)
            IN /\ players' = [players EXCEPT ![player_id + 1].ranges = r.ranges]
               /\ failure' = r.failure
    /\ UNCHANGED <<contract_names, player_names, contracts, ious, session, pc, service_vars>>

increment_credit(amount) ==
    /\ Running
    /\ players # <<>>
    /\ \A i \in 1..Len(players) :
          players[i].credit_limit + amount \in (0 - MaxCreditSteps * 1000)..(MaxCreditSteps * 1000)
    /\ players' = [i \in 1..Len(players) |->
                     [players[i] EXCEPT !.credit_limit = @ + amount]]
    /\ UNCHANGED <<contract_names, player_names, contracts, ious, session, pc, failure, service_vars>>

(***************************************************************************)
(* Session: the working exposures and the IOUs and trades of one run.      *)
(***************************************************************************)
apply_iou_issuer_only(sess, iou) ==
    [sess EXCEPT !.exposures[iou.issuer_id] = apply_iou_issuer(@, iou.status, iou.amount)]

apply_iou(sess, iou) ==
    LET e1 == [sess.exposures EXCEPT
                  ![iou.issuer_id] = apply_iou_issuer(@, iou.status, iou.amount)]
        e2 == [e1 EXCEPT
                  ![iou.holder_id] = apply_iou_holder(@, iou.status, iou.amount)]
    IN [sess EXCEPT !.exposures = e2]

push_iou_dropped(sess, iou) == sess

push_iou(sess, iou) ==
    LET applied == apply_iou(sess, iou)
    IN [applied EXCEPT !.ious = Append(@, iou)]

RECURSIVE apply_ious(_, _)
apply_ious(sess, list) ==
    IF list = <<>> THEN sess ELSE apply_ious(apply_iou(sess, Head(list)), Tail(list))

Session_new ==
    apply_ious([exposures |-> [player_id \in MapValues(player_names) |-> Exposure_new],
                ious |-> <<>>,
                trades |-> <<>>],
               ious)

player_max_buy_amount_as_seller(sess, buyer_id, contract_id) ==
    LET buyer_credit_limit == get_player(buyer_id).credit_limit
        buyer_exposed == total_exposure_to_contract(sess.exposures[buyer_id], contract_id)
    IN Max2(0, buyer_credit_limit - buyer_exposed)

player_max_buy_amount(sess, buyer_id, contract_id) ==
    LET buyer_credit_limit == get_player(buyer_id).credit_limit
        buyer_exposed == total_exposure_to_contract_neg(sess.exposures[buyer_id], contract_id)
    IN Max2(0, buyer_credit_limit - buyer_exposed)

player_max_sell_amount(sess, seller_id, contract_id) ==
    LET seller_credit_limit == get_player(seller_id).credit_limit
        seller_exposed == total_exposure_to_contract(sess.exposures[seller_id], contract_id)
    IN Max2(0, seller_credit_limit - seller_exposed)

WorthPostingAny(amount) == amount > 0

\* an amount find_offers posts
WorthPosting(amount) == amount >= 100

\* Offers.offers : ContractID -> ContractOffers, each side price -> (PlayerID -> amount)
find_offers(sess) ==
    LET quoting == {<<player_id, contract_id>> \in
                       MapValues(player_names) \X MapValues(contract_names) :
                       contract_id \in DOMAIN get_player(player_id).ranges}
        buys == {q \in quoting : WorthPosting(player_max_buy_amount(sess, q[1], q[2]))}
        sells == {q \in quoting : WorthPosting(player_max_sell_amount(sess, q[1], q[2]))}
        low(q) == get_player(q[1]).ranges[q[2]][1]
        high(q) == get_player(q[1]).ranges[q[2]][2]
        side(posted, price(_), amount(_, _, _), contract_id) ==
            [p \in {price(q) : q \in {x \in posted : x[2] = contract_id}} |->
                [player_id \in {q[1] : q \in {x \in posted :
                                                 x[2] = contract_id /\ price(x) = p}} |->
                    amount(sess, player_id, contract_id)]]
    IN [contract_id \in {q[2] : q \in buys \cup sells} |->
           [buy |-> side(buys, low, player_max_buy_amount, contract_id),
            sell |-> side(sells, high, player_max_sell_amount, contract_id)]]

CrossingStrict(low, high) == low < high

\* a best ask and a best bid that allow a trade
Crossing(low, high) == low <= high

WidenUntested(low, high, next_high, next_low) ==
    CASE next_high # None /\ next_low # None -> <<next_low[1], next_high[1]>>
      [] next_high # None /\ next_low = None -> <<low, next_high[1]>>
      [] next_high = None /\ next_low # None -> <<next_low[1], high>>
      [] OTHER -> <<low, high>>

\* the (low, high) used for spread and price: the next price levels where they still cross
Widen(low, high, next_high, next_low) ==
    CASE next_high # None /\ next_low # None ->
            IF next_low[1] < next_high[1] THEN <<next_low[1], next_high[1]>> ELSE <<low, high>>
      [] next_high # None /\ next_low = None ->
            IF next_high[1] > low THEN <<low, next_high[1]>> ELSE <<low, high>>
      [] next_high = None /\ next_low # None ->
            IF next_low[1] < high THEN <<next_low[1], high>> ELSE <<low, high>>
      [] OTHER -> <<low, high>>

LastOfLargest(offered) ==
    LET sorted == SortTuples({<<offered[player_id], get_player(player_id).name, player_id>> :
                                 player_id \in DOMAIN offered})
    IN sorted[Len(sorted)][3]

\* sort by amount, then name; keep the highest amount; take the first
FirstOfLargest(offered) ==
    LET sorted == SortTuples({<<offered[player_id], get_player(player_id).name, player_id>> :
                                 player_id \in DOMAIN offered})
        max_amount == sorted[Len(sorted)][1]
        retained == SelectSeq(sorted, LAMBDA t : t[1] = max_amount)
    IN Head(retained)[3]

\* the entries find_trades pushes for one contract: none or one
contract_trades(contract_id, contract_offers) ==
    LET buy == contract_offers.buy
        sell == contract_offers.sell
    IN IF DOMAIN buy = {} \/ DOMAIN sell = {} THEN {}
       ELSE LET high == MaxOf(DOMAIN buy)
                low == MinOf(DOMAIN sell)
                next_high == IF DOMAIN buy = {high} THEN None
                             ELSE Some(MaxOf(DOMAIN buy \ {high}))
                next_low == IF DOMAIN sell = {low} THEN None
                            ELSE Some(MinOf(DOMAIN sell \ {low}))
                widened == Widen(low, high, next_high, next_low)
                buyer_id == FirstOfLargest(buy[high])
                seller_id == FirstOfLargest(sell[low])
                spread == widened[2] - widened[1]
            IN IF Crossing(low, high)
               THEN {<<spread, get_contract(contract_id).name, contract_id,
                       buyer_id, widened[2], seller_id, widened[1]>>}
               ELSE {}

find_trades(offers) ==
    Reverse(SortTuples(UNION {contract_trades(contract_id, offers[contract_id]) :
                                 contract_id \in DOMAIN offers}))

\* Offers::find_spreads: the panic it ends in, if any
find_spreads(offers) ==
    IF \E contract_id \in DOMAIN offers :
          /\ get_contract(contract_id).outcome = None
          /\ LET buy == IF DOMAIN offers[contract_id].buy = {} THEN 0
                        ELSE MaxOf(DOMAIN offers[contract_id].buy)
                 sell == IF DOMAIN offers[contract_id].sell = {} THEN 100
                         ELSE MinOf(DOMAIN offers[contract_id].sell)
             IN sell <= buy
    THEN PanicYouSaidNoTrades
    ELSE NoFailure

\* the total check_credit_failure recomputes from the ledger and the session's IOUs
RECURSIVE replay_total(_, _, _)
replay_total(list, player_id, contract_id) ==
    IF list = <<>> THEN 0
    ELSE LET iou == Head(list)
             counted ==
                 CASE iou.status.tag = "Void" -> FALSE
                   [] iou.status.tag = "True" -> TRUE
                   [] iou.status.tag = "Unknown" /\ iou.status.condition.tag = "If" ->
                         iou.status.condition.contract_id = contract_id
                   [] iou.status.tag = "Unknown" /\ iou.status.condition.tag = "Not" ->
                         iou.status.condition.contract_id # contract_id
             signed == IF ~counted THEN 0
                       ELSE IF iou.issuer_id = player_id THEN iou.amount
                       ELSE IF iou.holder_id = player_id THEN -iou.amount
                       ELSE 0
         IN signed + replay_total(Tail(list), player_id, contract_id)

\* contract_names.values(): the contract ids in the order of their names
ContractIdsByName ==
    LET sorted == SortTuples({<<name, contract_names[name]>> : name \in DOMAIN contract_names})
    IN [i \in 1..Len(sorted) |-> sorted[i][2]]

RECURSIVE check_credit_from(_, _, _)
check_credit_from(list, sess, player_id) ==
    IF list = <<>> THEN NoFailure
    ELSE LET contract_id == Head(list)
             ex == total_exposure_to_contract(sess.exposures[player_id], contract_id)
             total == replay_total(ious \o sess.ious, player_id, contract_id)
         IN IF ex > get_player(player_id).credit_limit THEN PanicCreditExposed
            ELSE IF ex # total THEN PanicExposureMismatch
            ELSE check_credit_from(Tail(list), sess, player_id)

check_credit_failure(sess, player_id) ==
    check_credit_from(ContractIdsByName, sess, player_id)

TradePriceAtBid(low, high) == high

\* the price of a trade between the ask low and the bid high
TradePrice(low, high) == Div(low + high, 2)

SellerIouAmountMisplaced(trade_units, price) == trade_units * 100 - price

SellerIouAmount(trade_units, price) == trade_units * (100 - price)
BuyerIouAmount(trade_units, price) == trade_units * price

\* one iteration of the loop of Market::session that found a trade:
\* the Session it leaves and the panic it ended in, if any
trade_step(sess, trade) ==
    LET contract_id == trade[3]
        buyer_id == trade[4]
        high == trade[5]
        seller_id == trade[6]
        low == trade[7]
        price == TradePrice(low, high)
        buyer_max_amount == player_max_buy_amount(sess, buyer_id, contract_id)
        seller_max_amount == player_max_sell_amount(sess, seller_id, contract_id)
    IN IF price = 0 THEN [session |-> sess, failure |-> PanicDivideByZeroBuyer]
       ELSE IF 100 - price = 0 THEN [session |-> sess, failure |-> PanicDivideByZeroSeller]
       ELSE LET buyer_max_units == Div(buyer_max_amount, price)
                seller_max_units == Div(seller_max_amount, 100 - price)
                trade_units == Min2(buyer_max_units, seller_max_units)
                seller_iou == Iou(seller_id, buyer_id, Unknown(If(contract_id)),
                                  SellerIouAmount(trade_units, price))
                buyer_iou == Iou(buyer_id, seller_id, Unknown(Not(contract_id)),
                                 BuyerIouAmount(trade_units, price))
                traded == [sess EXCEPT !.trades =
                              Append(@, [contract_id |-> contract_id,
                                         trade_units |-> trade_units,
                                         amount |-> trade_units * price])]
                pushed == push_iou(push_iou(traded, seller_iou), buyer_iou)
                buyer_check == check_credit_failure(pushed, buyer_id)
            IN IF ~(trade_units > 0) THEN [session |-> sess, failure |-> PanicTradeUnits]
               ELSE IF buyer_check # NoFailure THEN [session |-> pushed, failure |-> buyer_check]
               ELSE [session |-> pushed, failure |-> check_credit_failure(pushed, seller_id)]

session_start ==
    /\ Running
    /\ Len(ious) < MaxIous
    /\ session' = Session_new
    /\ pc' = "loop"
    /\ UNCHANGED <<contract_names, player_names, contracts, players, ious, failure, service_vars>>

session_trade_committing ==
    /\ pc = "loop" /\ failure = NoFailure
    /\ Len(session.trades) < MaxTrades
    /\ LET trades == find_trades(find_offers(session))
       IN /\ trades # <<>>
          /\ LET r == trade_step(session, Head(trades))
             IN /\ session' = r.session
                /\ failure' = r.failure
                /\ ious' = ious \o SubSeq(r.session.ious, Len(session.ious) + 1,
                                           Len(r.session.ious))
    /\ UNCHANGED <<contract_names, player_names, contracts, players, pc, service_vars>>

session_trade ==
    /\ pc = "loop" /\ failure = NoFailure
    /\ Len(session.trades) < MaxTrades
    /\ LET trades == find_trades(find_offers(session))
       IN /\ trades # <<>>
          /\ LET r == trade_step(session, Head(trades))
             IN /\ session' = r.session
                /\ failure' = r.failure
    /\ UNCHANGED <<contract_names, player_names, contracts, players, ious, pc, service_vars>>

session_finish_replacing ==
    /\ pc = "loop" /\ failure = NoFailure
    /\ find_trades(find_offers(session)) = <<>>
    /\ LET spreads == find_spreads(find_offers(session))
       IN IF spreads # NoFailure
          THEN /\ failure' = spreads
               /\ UNCHANGED <<ious, session, pc>>
          ELSE /\ ious' = session.ious
               /\ session' = NoSession
               /\ pc' = "idle"
               /\ UNCHANGED failure
    /\ UNCHANGED <<contract_names, player_names, contracts, players, service_vars>>

session_finish ==
    /\ pc = "loop" /\ failure = NoFailure
    /\ find_trades(find_offers(session)) = <<>>
    /\ LET spreads == find_spreads(find_offers(session))
       IN IF spreads # NoFailure
          THEN /\ failure' = spreads
               /\ UNCHANGED <<ious, session, pc>>
          ELSE /\ ious' = ious \o session.ious
               /\ session' = NoSession
               /\ pc' = "idle"
               /\ UNCHANGED failure
    /\ UNCHANGED <<contract_names, player_names, contracts, players, service_vars>>

(***************************************************************************)
(* The inputs of the operations and the specification.                     *)
(***************************************************************************)
RangeEntries == {<<name, r[1], r[2]>> : name \in ContractNamePool, r \in PriceRanges}

\* a declaration names up to as many contracts as there are names, in any order
RangeLists == UNION {[1..n -> RangeEntries] : n \in 0..Cardinality(ContractNamePool)}

Next ==
    \/ \E name \in ContractNamePool : new_contract(name)
    \/ \E name \in PlayerNamePool : new_player(name)
    \/ \E name \in ContractNamePool, outcome \in BOOLEAN : contract_outcome(name, outcome)
    \/ \E name \in PlayerNamePool, ranges \in RangeLists : player_ranges(name, ranges)
    \/ \E amount \in CreditAmounts : increment_credit(amount)
    \/ session_start
    \/ session_trade
    \/ session_finish

Spec == Init /\ [][Next]_vars

\* a market of three contracts on which every declaration gives one range to all three
ThreeContractNames == {1, 2, 3}
SameRangeOnAll == {[i \in 1..3 |-> <<i, r[1], r[2]>>] : r \in {<<20, 40>>, <<40, 60>>}}

NextOfThree ==
    \/ \E name \in ThreeContractNames : new_contract(name)
    \/ \E name \in PlayerNamePool : new_player(name)
    \/ \E name \in ThreeContractNames, outcome \in BOOLEAN : contract_outcome(name, outcome)
    \/ \E name \in PlayerNamePool, ranges \in SameRangeOnAll : player_ranges(name, ranges)
    \/ \E amount \in CreditAmounts : increment_credit(amount)
    \/ session_start
    \/ session_trade
    \/ session_finish

SpecOfThree == Init /\ [][NextOfThree]_vars

\* a market whose declarations may end in a range the range test refuses
RefusedRanges == {<<-1, 50>>, <<50, 101>>, <<40, 40>>}
RefusedEntries == {<<name, r[1], r[2]>> : name \in ContractNamePool, r \in RefusedRanges}
DeclarationLists ==
    RangeLists \cup {Append(ranges, refused) :
                        ranges \in {l \in RangeLists : Len(l) <= 1}, refused \in RefusedEntries}

NextOfDeclarations ==
    \/ \E name \in ContractNamePool : new_contract(name)
    \/ \E name \in PlayerNamePool : new_player(name)
    \/ \E name \in ContractNamePool, outcome \in BOOLEAN : contract_outcome(name, outcome)
    \/ \E name \in PlayerNamePool, ranges \in DeclarationLists : player_ranges(name, ranges)
    \/ \E amount \in CreditAmounts : increment_credit(amount)
    \/ session_start
    \/ session_trade
    \/ session_finish

SpecOfDeclarations == Init /\ [][NextOfDeclarations]_vars

\* the registry alone: contracts, players, outcomes and declarations, no session
NextOfRegistry ==
    \/ \E name \in ContractNamePool : new_contract(name)
    \/ \E name \in PlayerNamePool : new_player(name)
    \/ \E name \in ContractNamePool, outcome \in BOOLEAN : contract_outcome(name, outcome)
    \/ \E name \in PlayerNamePool, ranges \in DeclarationLists : player_ranges(name, ranges)

SpecOfRegistry == Init /\ [][NextOfRegistry]_vars

\* a market of one contract and three players, each declaration of one range at most
ThreePlayerNames == {1, 2, 3}
OneContractName == {1}
OneRangeLists == {<<>>} \cup {<<<<name, r[1], r[2]>>>> : name \in OneContractName, r \in PriceRanges}

NextOfThreePlayers ==
    \/ \E name \in OneContractName : new_contract(name)
    \/ \E name \in ThreePlayerNames : new_player(name)
    \/ \E name \in OneContractName, outcome \in BOOLEAN : contract_outcome(name, outcome)
    \/ \E name \in ThreePlayerNames, ranges \in OneRangeLists : player_ranges(name, ranges)
    \/ \E amount \in CreditAmounts : increment_credit(amount)
    \/ session_start
    \/ session_trade
    \/ session_finish

SpecOfThreePlayers == Init /\ [][NextOfThreePlayers]_vars

\* a market of one contract whose declarations reach the ends of the price scale
EdgeRanges == {<<20, 40>>, <<50, 70>>, <<0, 1>>, <<1, 100>>, <<0, 99>>, <<99, 100>>}
EdgeRangeLists == {<<>>} \cup {<<<<name, r[1], r[2]>>>> : name \in OneContractName, r \in EdgeRanges}

NextOfOneContract ==
    \/ \E name \in OneContractName : new_contract(name)
    \/ \E name \in PlayerNamePool : new_player(name)
    \/ \E name \in OneContractName, outcome \in BOOLEAN : contract_outcome(name, outcome)
    \/ \E name \in PlayerNamePool, ranges \in EdgeRangeLists : player_ranges(name, ranges)
    \/ \E amount \in CreditAmounts : increment_credit(amount)
    \/ session_start
    \/ session_trade
    \/ session_finish

SpecOfOneContract == Init /\ [][NextOfOneContract]_vars

\* the registry with credit adjustments of either sign (Price is i32)
SignedCreditAmounts == {1000, -1000}

NextOfCredit ==
    \/ \E name \in ContractNamePool : new_contract(name)
    \/ \E name \in PlayerNamePool : new_player(name)
    \/ \E name \in ContractNamePool, outcome \in BOOLEAN : contract_outcome(name, outcome)
    \/ \E name \in PlayerNamePool, ranges \in RangeLists : player_ranges(name, ranges)
    \/ \E amount \in SignedCreditAmounts : increment_credit(amount)

SpecOfCredit == Init /\ [][NextOfCredit]_vars

\* a market of one contract and four players whose ranges put two price levels
\* on a side of the book
LevelPlayerNames == {1, 2, 3, 4}
LevelRanges(name) ==
    CASE name = 1 -> {<<10, 20>>, <<60, 70>>}
      [] name = 2 -> {<<10, 20>>, <<50, 70>>}
      [] name = 3 -> {<<30, 40>>}
      [] name = 4 -> {<<30, 45>>}

NextOfLevels ==
    \/ \E name \in OneContractName : new_contract(name)
    \/ \E name \in LevelPlayerNames : new_player(name)
    \/ \E name \in OneContractName, outcome \in BOOLEAN : contract_outcome(name, outcome)
    \/ \E name \in LevelPlayerNames : \E r \in LevelRanges(name) :
          player_ranges(name, <<<<1, r[1], r[2]>>>>)
    \/ \E amount \in CreditAmounts : increment_credit(amount)
    \/ session_start
    \/ session_trade
    \/ session_finish

SpecOfLevels == Init /\ [][NextOfLevels]_vars

(***************************************************************************)
(* The inputs of the service and its specifications.                       *)
(***************************************************************************)
\* the bodies the HTTP clients post; the void of CondId names no IOU
ServerBodies ==
    {Malformed, CreateUser(<<"a">>), CreateUser(<<"A", "-">>), UpdateVoid(CondId), QueryAllUser}

NextOfServer ==
    \/ \E c \in CallIds, body \in ServerBodies : call_send(c, body)
    \/ \E c \in CallIds : call_reply(c)
    \/ \E c \in CallIds : call_drop(c)
    \/ work_recv
    \/ work_request
    \/ work_reply

SpecOfServer == Init /\ [][NextOfServer]_vars

\* the server started on the tables that dummy leaves before its transfer: two
\* users (IDs 2 and 3) and an IOU (ID 4) of value 2 from the first to the second
IouId == 4
LedgerOf(value) ==
    LET d0 == [user |-> <<>>, iou |-> <<>>, offer |-> <<>>, cond |-> {CondId}, ids |-> CondId]
        d1 == do_request(d0, CreateUser(<<"a">>)).db
        d2 == do_request(d1, CreateUser(<<"b">>)).db
    IN  do_request(d2, CreateIOU(IOU(2, 3, value, Some(CondId), TRUE, None, FALSE))).db
LedgerOfDummy == LedgerOf(2)

InitOfWorker ==
    /\ contract_names = <<>>
    /\ player_names = <<>>
    /\ contracts = <<>>
    /\ players = <<>>
    /\ ious = <<>>
    /\ session = NoSession
    /\ pc = "idle"
    /\ failure = NoFailure
    /\ db = LedgerOfDummy
    /\ returned = None
    /\ channel = <<>>
    /\ calls = [c \in CallIds |-> NewCall]
    /\ worker = [pc |-> "recv", msg |-> None, response |-> None]
    /\ history = [sent |-> <<>>, received |-> <<>>, executed |-> <<>>, delivered |-> <<>>, ended |-> 0]

\* the bodies posted to it: an IOU of value ZERO, a void, a transfer that splits
\* the IOU, a transfer whose shares do not add up, a query
WorkerBodies ==
    {Malformed,
     CreateIOU(IOU(2, 3, 0, Some(CondId), TRUE, None, FALSE)),
     UpdateVoid(IouId),
     UpdateTransfer(IouId, [user_id \in {2, 3} |-> 1]),
     UpdateTransfer(IouId, [user_id \in {3} |-> 1]),
     QueryAllIOU}

NextOfWorker ==
    \/ \E c \in CallIds, body \in WorkerBodies : call_send(c, body)
    \/ \E c \in CallIds : call_reply(c)
    \/ \E c \in CallIds : call_drop(c)
    \/ work_recv
    \/ work_request
    \/ work_reply

\* the event loop of the server polls every call whose on_reply has completed
SpecOfWorkerPolled ==
    InitOfWorker /\ [][NextOfWorker]_vars /\ \A c \in CallIds : WF_vars(call_reply(c))

\* a direct caller that transfers and voids over the ledger of dummy, its IOU of
\* OriginalValue; no further request is made once MaxLedgerIds IDs are given out
OriginalValue == 3
MaxLedgerIds == 9
TransferShares == {0, 1, 2}
TransferHolders == UNION {[held -> TransferShares] : held \in (SUBSET DOMAIN LedgerOfDummy.user) \ {{}}}
LedgerIdPool == IouId..MaxLedgerIds

InitOfTransfers ==
    /\ contract_names = <<>>
    /\ player_names = <<>>
    /\ contracts = <<>>
    /\ players = <<>>
    /\ ious = <<>>
    /\ session = NoSession
    /\ pc = "idle"
    /\ failure = NoFailure
    /\ db = LedgerOf(OriginalValue)
    /\ returned = None
    /\ channel = <<>>
    /\ calls = [c \in CallIds |-> NewCall]
    /\ worker = [pc |-> "recv", msg |-> None, response |-> None]
    /\ history = [sent |-> <<>>, received |-> <<>>, executed |-> <<>>, delivered |-> <<>>, ended |-> 0]

ledger_transfer(id, holders) ==
    /\ db.ids < MaxLedgerIds
    /\ request(UpdateTransfer(id, holders))

ledger_void(id) ==
    /\ db.ids < MaxLedgerIds
    /\ request(UpdateVoid(id))

NextOfTransfers ==
    \/ \E id \in LedgerIdPool, holders \in TransferHolders : ledger_transfer(id, holders)
    \/ \E id \in LedgerIdPool : ledger_void(id)

SpecOfTransfers == InitOfTransfers /\ [][NextOfTransfers]_vars

\* a ledger of two users: the names, and the IDs that requests name as users
LedgerUserNames == {<<"a">>, <<"b">>}
UserIdPool == {2, 3}
\* the value of a new IOU (IOU::valid refuses ZERO)
IouValues == {0, 2}
\* the IDs a transfer or a void may name: the first is a user, the others may be IOUs
IdPool == 2..(MaxIds + 1)
\* the shares of a transfer
Shares == {-1, 0, 1, 2}
HoldersPool == UNION {[held -> Shares] : held \in SUBSET UserIdPool}

NextOfMarket ==
    \/ \E name \in LedgerUserNames : create_user(name)
    \/ \E issuer \in UserIdPool, holder \in UserIdPool, value \in IouValues :
          create_iou(issuer, holder, value)
    \/ \E id \in IdPool, holders \in HoldersPool : update_transfer(id, holders)
    \/ \E id \in IdPool : update_void(id)

SpecOfMarket == Init /\ [][NextOfMarket]_vars


\* the accounts: user names of up to MaxNameLen characters, and offers
MaxNameLen == 2
NameChars == {"a", "A", "-", " "}
AccountNames == UNION {[1..n -> NameChars] : n \in 0..MaxNameLen}
\* the (buy price, sell price) of an offer
PricePairs == {<<-1, 500>>, <<0, 1000>>, <<340, 450>>, <<450, 450>>, <<500, 1001>>, <<600, 400>>}

NextOfAccounts ==
    \/ \E name \in AccountNames : create_user(name)
    \/ \E user \in UserIdPool, prices \in PricePairs : create_offer(user, prices)
    \/ \E id \in IdPool, prices \in PricePairs : update_offer_details(id, prices)

SpecOfAccounts == Init /\ [][NextOfAccounts]_vars


\* ArgList::from(&str): the text of an argument list, a sequence of characters
WhiteSpace == {" ", "\n"}
is_whitespace(ch) == ch \in WhiteSpace

RECURSIVE str_trim_start(_)
str_trim_start(s) ==
    IF s # <<>> /\ is_whitespace(Head(s)) THEN str_trim_start(Tail(s)) ELSE s

RECURSIVE str_trim_end(_)
str_trim_end(s) ==
    IF s # <<>> /\ is_whitespace(s[Len(s)]) THEN str_trim_end(SubSeq(s, 1, Len(s) - 1)) ELSE s

str_trim(s) == str_trim_end(str_trim_start(s))

\* s.split(','): the pieces between the commas, the empty ones too
RECURSIVE str_split(_)
str_split(s) ==
    IF \A i \in 1..Len(s) : s[i] # ","
    THEN <<s>>
    ELSE LET comma == CHOOSE i \in 1..Len(s) : s[i] = "," /\ \A j \in 1..(i - 1) : s[j] # ","
         IN  <<SubSeq(s, 1, comma - 1)>> \o str_split(SubSeq(s, comma + 1, Len(s)))

ArgList_from_split_only(s) ==
    LET pieces == str_split(s)
    IN  [i \in 1..Len(pieces) |-> str_trim(pieces[i])]

ArgList_from(s) ==
    IF str_trim(s) = <<>>
    THEN <<>>
    ELSE LET pieces == str_split(s)
         IN  [i \in 1..Len(pieces) |-> str_trim(pieces[i])]

\* a caller builds an argument list from a text (pred_args, depend_vars, depend_args)
arg_list_from(text) ==
    /\ returned' = [request |-> text, ok |-> TRUE, result |-> ArgList_from(text)]
    /\ UNCHANGED <<lazyhack_vars, db, channel, calls, worker, history>>

MaxTextLen == 4
TextChars == {"x", ","} \cup WhiteSpace
Texts == UNION {[1..n -> TextChars] : n \in 0..MaxTextLen}

NextOfArgList == \E text \in Texts : arg_list_from(text)

SpecOfArgList == Init /\ [][NextOfArgList]_vars

(***************************************************************************)
(* Properties.                                                             *)
(***************************************************************************)
PlayerIds == 0..(Len(players) - 1)
ContractIds == 0..(Len(contracts) - 1)
InLoop == pc = "loop" /\ failure = NoFailure
LoopEnded == InLoop /\ find_trades(find_offers(session)) = <<>>
Last(s) == s[Len(s)]

\* C1: in every state, for every participant and every contract, the exposure to
\* the contract and the exposure to its negation, both computed from the committed
\* ledger, are at most the participant's credit limit.
CreditBound ==
    failure = NoFailure =>
        \A player_id \in PlayerIds, contract_id \in ContractIds :
            /\ total_exposure_to_contract(calc_exposure(player_id), contract_id)
                  <= get_player(player_id).credit_limit
            /\ total_exposure_to_contract_neg(calc_exposure(player_id), contract_id)
                  <= get_player(player_id).credit_limit

\* C2: the matching loop ends after finitely many trades: every iteration adds
\* one trade to the session, and whenever the loop still finds a crossing it has
\* made fewer than MaxTrades trades, so the loop is never cut short and reaches
\* the iteration that finds no crossing and exits.
SessionTerminates ==
    (InLoop /\ find_trades(find_offers(session)) # <<>>) => Len(session.trades) < MaxTrades

SessionOfSeveralTrades == InLoop /\ Len(session.trades) >= 2

\* C3: when the loop has found no trade, the book recomputed from the working
\* exposures has best bid < best ask on every unresolved contract (no bid
\* counting as 0, no ask as 100), and the spread report never fails.
BestBid(offers, contract_id) ==
    IF contract_id \in DOMAIN offers /\ DOMAIN offers[contract_id].buy # {}
    THEN MaxOf(DOMAIN offers[contract_id].buy) ELSE 0

BestAsk(offers, contract_id) ==
    IF contract_id \in DOMAIN offers /\ DOMAIN offers[contract_id].sell # {}
    THEN MinOf(DOMAIN offers[contract_id].sell) ELSE 100

NoCrossingAtLoopEnd ==
    /\ failure # PanicYouSaidNoTrades
    /\ LoopEnded =>
          \A contract_id \in ContractIds :
              get_contract(contract_id).outcome = None =>
                  BestBid(find_offers(session), contract_id)
                      < BestAsk(find_offers(session), contract_id)

LoopEndedWithTwoSidedBook ==
    /\ LoopEnded
    /\ session.trades # <<>>
    /\ \E contract_id \in DOMAIN find_offers(session) :
          /\ DOMAIN find_offers(session)[contract_id].buy # {}
          /\ DOMAIN find_offers(session)[contract_id].sell # {}

\* C4: the credit check made after each trade never fails.
PostTradeCreditCheckPasses == failure # PanicCreditExposed

\* C5: every posted bid or ask is worth at least 100, and the crossing the loop
\* selects clears at least one unit: trade_units >= 1, and the trade_units
\* failure is never reached.
SelectedTradeUnits ==
    LET trade == Head(find_trades(find_offers(session)))
        price == (trade[7] + trade[5]) \div 2
        buyer_max_amount ==
            Max2(0, get_player(trade[4]).credit_limit
                       - total_exposure_to_contract_neg(session.exposures[trade[4]], trade[3]))
        seller_max_amount ==
            Max2(0, get_player(trade[6]).credit_limit
                       - total_exposure_to_contract(session.exposures[trade[6]], trade[3]))
    IN Min2(buyer_max_amount \div price, seller_max_amount \div (100 - price))

TradeUnitsPositive ==
    /\ failure # PanicTradeUnits
    /\ InLoop =>
          LET offers == find_offers(session)
          IN /\ \A contract_id \in DOMAIN offers :
                   /\ \A price \in DOMAIN offers[contract_id].buy :
                         \A player_id \in DOMAIN offers[contract_id].buy[price] :
                             offers[contract_id].buy[price][player_id] >= 100
                   /\ \A price \in DOMAIN offers[contract_id].sell :
                         \A player_id \in DOMAIN offers[contract_id].sell[price] :
                             offers[contract_id].sell[price][player_id] >= 100
             /\ find_trades(offers) # <<>> => SelectedTradeUnits >= 1

CrossingSelected == InLoop /\ find_trades(find_offers(session)) # <<>>

\* C6: a trade appends exactly two IOUs to the session: Unknown If(contract) from
\* the seller to the buyer of trade_units * (100 - price), then Unknown
\* Not(contract) from the buyer to the seller of trade_units * price; the two
\* amounts sum to trade_units * 100.
TradeEmitsTwoIous ==
    [][(pc = "loop" /\ Len(session'.trades) > Len(session.trades)) =>
          LET selected == Head(find_trades(find_offers(session)))
              price == (selected[7] + selected[5]) \div 2
              trade == Last(session'.trades)
              units == trade.trade_units
              if_iou == [issuer_id |-> selected[6], holder_id |-> selected[4],
                         status |-> [tag |-> "Unknown",
                                     condition |-> [tag |-> "If",
                                                    contract_id |-> selected[3]]],
                         amount |-> units * (100 - price)]
              not_iou == [issuer_id |-> selected[4], holder_id |-> selected[6],
                          status |-> [tag |-> "Unknown",
                                      condition |-> [tag |-> "Not",
                                                     contract_id |-> selected[3]]],
                          amount |-> units * price]
          IN /\ session'.trades = Append(session.trades, trade)
             /\ trade.contract_id = selected[3]
             /\ session'.ious = session.ious \o <<if_iou, not_iou>>
             /\ if_iou.amount + not_iou.amount = units * 100]_vars

TradeEmitted == InLoop /\ session.trades # <<>>

\* C7: during a session the working exposure of every participant equals the
\* exposure recomputed by replaying the committed ledger followed by the
\* session's IOUs, for every contract, and the consistency check never fails.
ExposureMatchesReplay ==
    /\ failure # PanicExposureMismatch
    /\ pc = "loop" =>
          \A player_id \in PlayerIds :
              /\ session.exposures[player_id]
                    = calc_exposure_from(Exposure_new, ious \o session.ious, player_id)
              /\ \A contract_id \in ContractIds :
                    total_exposure_to_contract(session.exposures[player_id], contract_id)
                        = replay_total(ious \o session.ious, player_id, contract_id)

SessionOverSettledLedger ==
    /\ InLoop
    /\ session.ious # <<>>
    /\ \E i \in 1..Len(ious) : ious[i].status.tag = "True"
    /\ \E i \in 1..Len(ious) : ious[i].status.tag = "Unknown"

\* C9: a step that resolves contract c with outcome o turns every Unknown If(c)
\* into True and every Unknown Not(c) into Void when o is true, the reverse when
\* o is false, and changes nothing else of any IOU.
ResolutionTable ==
    [][\A contract_id \in ContractIds, outcome \in BOOLEAN :
          (/\ get_contract(contract_id).outcome = <<>>
           /\ contracts'[contract_id + 1].outcome = <<outcome>>) =>
              /\ Len(ious') = Len(ious)
              /\ \A i \in 1..Len(ious) :
                    LET before == ious[i].status
                        on_c == before.tag = "Unknown"
                                   /\ before.condition.contract_id = contract_id
                        stands == (before.condition.tag = "If") = outcome
                    IN ious'[i] =
                          IF on_c
                          THEN [ious[i] EXCEPT !.status.tag =
                                   IF stands THEN "True" ELSE "Void"]
                          ELSE ious[i]]_vars

LedgerOfAllStatuses ==
    /\ \E i \in 1..Len(ious) : ious[i].status.tag = "True"
    /\ \E i \in 1..Len(ious) : ious[i].status.tag = "Void"
    /\ \E i \in 1..Len(ious) : ious[i].status.tag = "Unknown"

\* C10: a set outcome never changes, and the step that rejects the resolution
\* of a resolved contract changes no outcome, no range and no IOU.
OutcomeIsFinal ==
    [][/\ \A contract_id \in ContractIds :
             get_contract(contract_id).outcome # <<>> =>
                 contracts'[contract_id + 1].outcome = get_contract(contract_id).outcome
       /\ failure' = PanicOutcomeAlreadySet =>
             contracts' = contracts /\ players' = players /\ ious' = ious]_vars

SecondResolutionRejected == failure = PanicOutcomeAlreadySet

\* C11: in every state every declared range (low, high) has 0 <= low < high <= 100
\* and is on an unresolved contract, and during a session no offer, no trade and
\* no IOU of the session refers to a resolved contract.
Unresolved(contract_id) == contracts[contract_id + 1].outcome = <<>>

RangesOnUnresolvedContracts ==
    /\ \A player_id \in PlayerIds :
          \A contract_id \in DOMAIN players[player_id + 1].ranges :
              LET low == players[player_id + 1].ranges[contract_id][1]
                  high == players[player_id + 1].ranges[contract_id][2]
              IN 0 <= low /\ low < high /\ high <= 100 /\ Unresolved(contract_id)
    /\ pc = "loop" =>
          /\ \A contract_id \in DOMAIN find_offers(session) : Unresolved(contract_id)
          /\ \A i \in 1..Len(session.trades) : Unresolved(session.trades[i].contract_id)
          /\ \A i \in 1..Len(session.ious) :
                Unresolved(session.ious[i].status.condition.contract_id)

TradeBesideResolvedContract ==
    /\ InLoop
    /\ session.trades # <<>>
    /\ \E contract_id \in ContractIds : ~Unresolved(contract_id)

\* C12: a declaration step is refused exactly when the participant is unknown or
\* some entry names an unknown contract, names a resolved contract, or has
\* low < 0, high > 100 or low >= high; the first refused entry is not stored; an
\* accepted declaration stores, for every contract it names, the range of the
\* last entry naming it.
RangeRefused(entry) ==
    \/ entry[1] \notin DOMAIN contract_names
    \/ ~Unresolved(contract_names[entry[1]])
    \/ entry[2] < 0
    \/ entry[3] > 100
    \/ entry[2] >= entry[3]

DeclarationRefusedOrStored ==
    [][(contracts' = contracts) =>
        \A name \in PlayerNamePool, ranges \in DeclarationLists :
          player_ranges(name, ranges) =>
            LET known == name \in DOMAIN player_names
                refused == {i \in 1..Len(ranges) : RangeRefused(ranges[i])}
                stored == players'[player_names[name] + 1].ranges
            IN /\ (failure' # "none") <=> (~known \/ refused # {})
               /\ (known /\ refused # {}) =>
                     LET entry == ranges[MinOf(refused)]
                     IN entry[1] \in DOMAIN contract_names =>
                           \/ contract_names[entry[1]] \notin DOMAIN stored
                           \/ stored[contract_names[entry[1]]] # <<entry[2], entry[3]>>
               /\ (known /\ refused = {}) =>
                     \A i \in 1..Len(ranges) :
                         (\A j \in (i + 1)..Len(ranges) : ranges[j][1] # ranges[i][1]) =>
                             /\ contract_names[ranges[i][1]] \in DOMAIN stored
                             /\ stored[contract_names[ranges[i][1]]]
                                   = <<ranges[i][2], ranges[i][3]>>]_vars

DeclarationRefusedAfterStoring ==
    /\ failure = PanicInvalidRange
    /\ \E player_id \in PlayerIds : DOMAIN players[player_id + 1].ranges # {}


\* C13: a step that resolves an already resolved contract, and a step that
\* declares a range on a resolved contract, do not stop the process and leave
\* the contracts, the players with their declared ranges and the ledger as they
\* were before the step.
RejectionsAreRecoverable ==
    [][/\ \A name \in DOMAIN contract_names, outcome \in BOOLEAN :
             (contract_outcome(name, outcome) /\ ~Unresolved(contract_names[name])) =>
                 /\ failure' = "none"
                 /\ contracts' = contracts /\ players' = players /\ ious' = ious
       /\ \A name \in DOMAIN player_names, ranges \in RangeLists \ {<<>>} :
             (/\ player_ranges(name, ranges)
              /\ ranges[1][1] \in DOMAIN contract_names
              /\ ~Unresolved(contract_names[ranges[1][1]])) =>
                 /\ failure' = "none"
                 /\ contracts' = contracts /\ players' = players /\ ious' = ious]_vars

\* C14: the contract of every trade is a crossing contract (best ask <= best
\* bid) whose spread, best bid - best ask, is the largest, and among the crossing
\* contracts of that largest spread it is the one whose name comes first.
LargestSpreadFirstName ==
    [][(pc = "loop" /\ Len(session'.trades) > Len(session.trades)) =>
          LET offers == find_offers(session)
              crossing == {contract_id \in DOMAIN offers :
                              BestAsk(offers, contract_id) <= BestBid(offers, contract_id)}
              spread(contract_id) == BestBid(offers, contract_id) - BestAsk(offers, contract_id)
              traded == Last(session'.trades).contract_id
          IN /\ traded \in crossing
             /\ \A contract_id \in crossing :
                   /\ spread(contract_id) <= spread(traded)
                   /\ spread(contract_id) = spread(traded) =>
                         contracts[traded + 1].name <= contracts[contract_id + 1].name]_vars

\* C15: in every trade the buyer bids at the contract's best bid price, no
\* participant bidding at that price has a larger buy capacity, and none of equal
\* capacity has a name that comes before the buyer's; the same for the seller
\* among the participants asking at the best ask price, by sell capacity.
FirstByCapacityThenName(chosen, offered) ==
    /\ chosen \in DOMAIN offered
    /\ \A player_id \in DOMAIN offered :
          /\ offered[player_id] <= offered[chosen]
          /\ offered[player_id] = offered[chosen] =>
                players[chosen + 1].name <= players[player_id + 1].name

BuyerAndSellerByCapacity ==
    [][(pc = "loop" /\ Len(session'.trades) > Len(session.trades)) =>
          LET offers == find_offers(session)
              traded == Last(session'.trades).contract_id
              if_iou == session'.ious[Len(session'.ious) - 1]
              buyer_id == if_iou.holder_id
              seller_id == if_iou.issuer_id
          IN /\ FirstByCapacityThenName(buyer_id,
                                         offers[traded].buy[BestBid(offers, traded)])
             /\ FirstByCapacityThenName(seller_id,
                                         offers[traded].sell[BestAsk(offers, traded)])]_vars

\* the first trade of a session over an empty ledger, with a third participant
\* who declared the buyer's range with the buyer's credit limit
BuyerChosenAmongEquals ==
    /\ InLoop
    /\ ious = <<>>
    /\ Len(session.trades) = 1
    /\ \E player_id \in PlayerIds :
          /\ player_id \notin {session.ious[1].issuer_id, session.ious[1].holder_id}
          /\ players[player_id + 1].ranges = players[session.ious[1].holder_id + 1].ranges
          /\ players[player_id + 1].credit_limit
                = players[session.ious[1].holder_id + 1].credit_limit

\* C16: no step ends in a division by zero, and every trade has a price in 1..99
\* between the best ask and the best bid, which is floor((best bid + best ask) / 2)
\* unless a next price level lies between them; the Not IOU is of trade_units *
\* price, the If IOU of trade_units * (100 - price), and both amounts are positive.
TradePriceInScale ==
    [][/\ failure' \notin {PanicDivideByZeroBuyer, PanicDivideByZeroSeller}
       /\ (pc = "loop" /\ Len(session'.trades) > Len(session.trades)) =>
             LET offers == find_offers(session)
                 trade == Last(session'.trades)
                 bids == DOMAIN offers[trade.contract_id].buy
                 asks == DOMAIN offers[trade.contract_id].sell
                 bid == BestBid(offers, trade.contract_id)
                 ask == BestAsk(offers, trade.contract_id)
                 if_iou == session'.ious[Len(session'.ious) - 1]
                 not_iou == session'.ious[Len(session'.ious)]
             IN \E price \in 1..99 :
                   /\ ask <= price /\ price <= bid
                   /\ (\A level \in (bids \cup asks) \ {bid, ask} : level < ask \/ level > bid)
                         => price = (bid + ask) \div 2
                   /\ trade.amount = trade.trade_units * price
                   /\ not_iou.amount = trade.trade_units * price
                   /\ if_iou.amount = trade.trade_units * (100 - price)
                   /\ not_iou.amount > 0 /\ if_iou.amount > 0]_vars

TradeAtEndOfScale ==
    /\ InLoop
    /\ session.trades # <<>>
    /\ Last(session.trades).amount = Last(session.trades).trade_units * 99

\* C17 and C18 are about one market: one contract, an empty ledger, participant 1
\* (X) with credit 1000 and range (20,40), participant 2 (Y) with credit 1000 and
\* range (50,70), in a session.
ScenarioOfXAndY ==
    /\ pc = "loop"
    /\ ious = <<>>
    /\ Len(contracts) = 1
    /\ DOMAIN player_names = {1, 2}
    /\ \A name \in {1, 2} : players[player_names[name] + 1].credit_limit = 1000
    /\ players[player_names[1] + 1].ranges = (0 :> <<20, 40>>)
    /\ players[player_names[2] + 1].ranges = (0 :> <<50, 70>>)

\* C17: in that market the session makes a first trade, of 18 units at price 45
\* (amount 810), and its IOUs are Unknown If(A) from X to Y of 990 and Unknown
\* Not(A) from Y to X of 810.
FirstTradeOfXAndY ==
    ScenarioOfXAndY =>
        /\ session.trades = <<>> => (failure = "none" /\ ~LoopEnded)
        /\ session.trades # <<>> =>
              /\ session.trades[1] = [contract_id |-> 0, trade_units |-> 18, amount |-> 18 * 45]
              /\ session.ious[1] = [issuer_id |-> player_names[1], holder_id |-> player_names[2],
                                     status |-> [tag |-> "Unknown",
                                                 condition |-> [tag |-> "If", contract_id |-> 0]],
                                     amount |-> 990]
              /\ session.ious[2] = [issuer_id |-> player_names[2], holder_id |-> player_names[1],
                                     status |-> [tag |-> "Unknown",
                                                 condition |-> [tag |-> "Not", contract_id |-> 0]],
                                     amount |-> 810]

XAndYTraded == ScenarioOfXAndY /\ session.trades # <<>> /\ failure = "none"

\* C18 as claimed: after that trade X's total_exposure_to_contract(A) is 180 and
\* Y's is -180.
ExposureOfXAndYNetted ==
    (ScenarioOfXAndY /\ Len(session.trades) = 1) =>
        /\ total_exposure_to_contract(session.exposures[player_names[1]], 0) = 180
        /\ total_exposure_to_contract(session.exposures[player_names[2]], 0) = -180

\* C18 amended: after that trade X's total_exposure_to_contract(A) is 990 and
\* Y's is -990: the Not(A) IOU of 810 is not part of the exposure to A.
ExposureOfXAndY ==
    (ScenarioOfXAndY /\ Len(session.trades) = 1) =>
        /\ total_exposure_to_contract(session.exposures[player_names[1]], 0) = 990
        /\ total_exposure_to_contract(session.exposures[player_names[2]], 0) = -990

XAndYExposed == ScenarioOfXAndY /\ Len(session.trades) = 1 /\ session.exposures # <<>>

\* C19: while a session is in its loop the ledger does not change; it changes
\* only in the step that leaves the loop, after the loop found no trade and the
\* spread check passed, and then by appending the session's IOUs in the order
\* they were emitted; a step that ends in a failure leaves the ledger as it was.
SessionCommitsAtOnce ==
    [][/\ pc = "loop" =>
             \/ ious' = ious
             \/ /\ pc' = "idle"
                /\ failure' = "none"
                /\ LoopEnded
                /\ \A contract_id \in ContractIds :
                      Unresolved(contract_id) =>
                          BestBid(find_offers(session), contract_id)
                              < BestAsk(find_offers(session), contract_id)
                /\ ious' = ious \o session.ious
       /\ (pc = "idle" /\ pc' = "loop") => ious' = ious
       /\ failure' # "none" => ious' = ious]_vars

SessionStoppedBeforeCommit ==
    /\ pc = "loop"
    /\ failure # "none"
    /\ session.ious # <<>>
    /\ ious # <<>>

\* C20: every step keeps every IOU of the ledger at its position with its
\* issuer, holder, amount and condition, and changes the status of an IOU only
\* from Unknown, to True or to Void.
LedgerAppendOnly ==
    [][/\ Len(ious') >= Len(ious)
       /\ \A i \in 1..Len(ious) :
             /\ ious'[i].issuer_id = ious[i].issuer_id
             /\ ious'[i].holder_id = ious[i].holder_id
             /\ ious'[i].amount = ious[i].amount
             /\ ious'[i].status.condition = ious[i].status.condition
             /\ ious'[i].status.tag # ious[i].status.tag =>
                   /\ ious[i].status.tag = "Unknown"
                   /\ ious'[i].status.tag \in {"True", "Void"}]_vars

AppendedToSettledLedger ==
    /\ pc = "idle"
    /\ Len(ious) >= 4
    /\ ious[1].status.tag # "Unknown"
    /\ ious[Len(ious)].status.tag = "Unknown"

\* C21: every step leaves every participant's credit limit non-negative and
\* not below what it was before the step.
CreditNonNegativeNonDecreasing ==
    [][\A i \in 1..Len(players) :
          /\ players'[i].credit_limit >= 0
          /\ players'[i].credit_limit >= players[i].credit_limit]_vars

\* C22: a step that adjusts credit changes the credit limit of one participant
\* only, and no declared range, no contract and no IOU.
CreditOfOneParticipantOnly ==
    [][(Len(players') = Len(players)
          /\ \E i \in 1..Len(players) : players'[i].credit_limit # players[i].credit_limit) =>
             /\ Cardinality({i \in 1..Len(players) :
                                players'[i].credit_limit # players[i].credit_limit}) = 1
             /\ \A i \in 1..Len(players) : players'[i].ranges = players[i].ranges
             /\ contracts' = contracts
             /\ ious' = ious]_vars

\* C23: for every participant and contract c, total_exposure_to_contract_neg(c)
\* is the largest net amount the participant owes, summed over the IOUs
\* themselves, under the outcome assignments in which c is false and at most one
\* other contract is true; and it is the largest of total_neg_exposure() and the
\* total_exposure_to_contract(q) of the contracts q other than c.
RECURSIVE OwedUnder(_, _, _)
OwedUnder(list, player_id, true_contracts) ==
    IF list = <<>> THEN 0
    ELSE LET iou == Head(list)
             stands ==
                 \/ iou.status.tag = "True"
                 \/ /\ iou.status.tag = "Unknown"
                    /\ (iou.status.condition.tag = "If")
                          = (iou.status.condition.contract_id \in true_contracts)
             owed == IF ~stands THEN 0
                     ELSE (IF iou.issuer_id = player_id THEN iou.amount ELSE 0)
                          - (IF iou.holder_id = player_id THEN iou.amount ELSE 0)
         IN owed + OwedUnder(Tail(list), player_id, true_contracts)

WorstCaseIfFalse(e, list, player_id, contract_id) ==
    LET others == ContractIds \ {contract_id}
    IN /\ total_exposure_to_contract_neg(e, contract_id)
             = MaxOf({OwedUnder(list, player_id, {})}
                        \cup {OwedUnder(list, player_id, {q}) : q \in others})
       /\ total_exposure_to_contract_neg(e, contract_id)
             = MaxOf({total_neg_exposure(e)}
                        \cup {total_exposure_to_contract(e, q) : q \in others})

NegExposureIsWorstCase ==
    \A player_id \in PlayerIds, contract_id \in ContractIds :
        /\ WorstCaseIfFalse(calc_exposure(player_id), ious, player_id, contract_id)
        /\ pc = "loop" =>
              WorstCaseIfFalse(session.exposures[player_id], ious \o session.ious,
                               player_id, contract_id)

\* a participant whose worst case with some contract false is another contract true
WorstCaseIsAnotherContract ==
    \E player_id \in PlayerIds, contract_id \in ContractIds :
        /\ ious # <<>>
        /\ total_exposure_to_contract_neg(calc_exposure(player_id), contract_id)
              > total_neg_exposure(calc_exposure(player_id))
        /\ exposure(calc_exposure(player_id), contract_id)
              > neg_exposure(calc_exposure(player_id), contract_id)

\* C24: a declaration step that is accepted leaves the participant with a range
\* on exactly the contracts the declaration names, each the last range given for
\* it, and changes no other participant's ranges, no credit limit, no contract
\* and no IOU.
DeclarationReplacesRanges ==
    [][(pc = "idle" /\ failure' = "none" /\ players' # players /\ contracts' = contracts) =>
        \A name \in DOMAIN player_names, ranges \in RangeLists :
          player_ranges(name, ranges) =>
            LET declared == player_names[name] + 1
                stored == players'[declared].ranges
            IN /\ DOMAIN stored = {contract_names[ranges[i][1]] : i \in 1..Len(ranges)}
               /\ \A i \in 1..Len(ranges) :
                     (\A j \in (i + 1)..Len(ranges) : ranges[j][1] # ranges[i][1]) =>
                         stored[contract_names[ranges[i][1]]] = <<ranges[i][2], ranges[i][3]>>
               /\ \A i \in 1..Len(players) :
                     /\ i # declared => players'[i].ranges = players[i].ranges
                     /\ players'[i].credit_limit = players[i].credit_limit
               /\ contracts' = contracts
               /\ ious' = ious]_vars

\* a participant holding IOUs with a range on one contract only, which a
\* declaration naming that contract alone leaves
RedeclaredOverLedger ==
    /\ pc = "idle" /\ failure = "none"
    /\ ious # <<>>
    /\ \E i \in 1..Len(players) :
          /\ Cardinality(DOMAIN players[i].ranges) = 1
          /\ \E k \in 1..Len(ious) : ious[k].issuer_id = i - 1
          /\ \E j \in 1..Len(players) : j # i /\ Cardinality(DOMAIN players[j].ranges) = 2

IsPrefix(s, t) == Len(s) <= Len(t) /\ \A i \in 1..Len(s) : s[i] = t[i]
Entries(s) == {s[i] : i \in 1..Len(s)}

\* C25: whatever the number of HTTP calls under way, at most one request has been
\* taken from the channel and not yet finished by the worker, and the worker takes
\* the requests in the order in which the calls placed them on the channel.
OneRequestAtATimeInOrder ==
    /\ Len(history.received) - history.ended <= 1
    /\ IsPrefix(history.received, history.sent)

RequestExecutingWhileOthersQueued ==
    /\ worker.pc = "request"
    /\ Len(channel) >= 1
    /\ Len(history.executed) >= 1
    /\ \E i, j \in 1..Len(history.sent) : i < j /\ history.sent[i] > history.sent[j]

\* the capacity the channel of C26 would have; run_server creates it without one
ChannelCapacity == 2

\* C26: the channel between the HTTP calls and the worker never holds more
\* requests than its capacity: a call that sends to a full channel waits until the
\* worker has taken a request.
ChannelWithinCapacity == Len(channel) <= ChannelCapacity

\* C27: under any interleaving of the calls, a call receives at most one response,
\* every response delivered was produced by executing the request of the call it
\* is delivered to, and the body a call answers with is the response to its own
\* request.
ResponseToItsOwnCall ==
    /\ \A c \in CallIds :
          Cardinality({i \in 1..Len(history.delivered) : history.delivered[i].call = c}) <= 1
    /\ Entries(history.delivered) \subseteq Entries(history.executed)
    /\ \A c \in CallIds :
          calls[c].status = 200 => [call |-> c, response |-> calls[c].body] \in Entries(history.executed)

TwoCallsAnsweredDifferently ==
    \E c1, c2 \in CallIds :
        /\ calls[c1].status = 200 /\ calls[c2].status = 200
        /\ calls[c1].body # calls[c2].body
        /\ \E i, j \in 1..Len(history.sent) :
              i < j /\ history.sent[i] = c1 /\ history.sent[j] = c2 /\ c1 > c2

RECURSIVE TotalValue(_, _)
TotalValue(table, ids) ==
    IF ids = {}
    THEN 0
    ELSE LET id == CHOOSE k \in ids : TRUE
         IN  table[id].iou_value + TotalValue(table, ids \ {id})

RECURSIVE TotalShares(_, _)
TotalShares(holders, pending) ==
    IF pending = {}
    THEN 0
    ELSE LET h == CHOOSE k \in pending : TRUE
         IN  holders[h] + TotalShares(holders, pending \ {h})

IsTransfer(r) == r # None /\ r.request.type = "Update" /\ r.request.item_update = "Transfer"
IsVoid(r) == r # None /\ r.request.type = "Update" /\ r.request.item_update = "Void"

\* C28: a transfer that succeeds was made on an IOU that was not void; it marks
\* that parent void and stores one replacement for each named holder and no other
\* IOU; the values of the replacements are the shares and sum to the value of the
\* parent; each replacement has the issuer and the condition of the parent and
\* the ID of the parent as its split; a replacement held by the issuer is void.
TransferSplitsParent ==
    [][(IsTransfer(returned') /\ returned'.ok) =>
          LET id == returned'.request.id
              holders == returned'.request.fields.holders
              created == DOMAIN db'.iou \ DOMAIN db.iou
          IN  /\ id \in DOMAIN db.iou
              /\ ~db.iou[id].iou_void
              /\ db'.iou[id] = [db.iou[id] EXCEPT !.iou_void = TRUE]
              /\ Cardinality(created) = Cardinality(DOMAIN holders)
              /\ \A h \in DOMAIN holders :
                    \E n \in created : /\ db'.iou[n].iou_holder = h
                                       /\ db'.iou[n].iou_value = holders[h]
              /\ TotalValue(db'.iou, created) = db.iou[id].iou_value
              /\ \A n \in created :
                    /\ db'.iou[n].iou_issuer = db.iou[id].iou_issuer
                    /\ db'.iou[n].iou_cond_id = db.iou[id].iou_cond_id
                    /\ db'.iou[n].iou_cond_flag = db.iou[id].iou_cond_flag
                    /\ db'.iou[n].iou_cond_time = db.iou[id].iou_cond_time
                    /\ db'.iou[n].iou_split = Some(id)
                    /\ (db'.iou[n].iou_holder = db.iou[id].iou_issuer => db'.iou[n].iou_void)]_vars

SplitBetweenIssuerAndHolder ==
    /\ IsTransfer(returned) /\ returned.ok
    /\ \E id, n1, n2 \in DOMAIN db.iou :
          /\ id = returned.request.id
          /\ db.iou[id].iou_void
          /\ db.iou[n1].iou_split = Some(id) /\ db.iou[n2].iou_split = Some(id)
          /\ db.iou[n1].iou_holder = db.iou[id].iou_issuer /\ db.iou[n1].iou_void
          /\ db.iou[n2].iou_holder # db.iou[id].iou_issuer /\ ~db.iou[n2].iou_void

\* C29: a transfer of an IOU that is void, or with a share that is zero or
\* negative, or with shares that do not sum to the value of the IOU, fails; a void
\* of an IOU that is already void fails; a transfer or a void that fails leaves
\* every table as it was: the parent keeps its void flag and no IOU is stored.
FailedTransferOrVoidChangesNothing ==
    [][/\ (IsTransfer(returned') /\ returned'.request.id \in DOMAIN db.iou) =>
            LET parent == db.iou[returned'.request.id]
                holders == returned'.request.fields.holders
            IN  (\/ parent.iou_void
                 \/ \E h \in DOMAIN holders : holders[h] <= 0
                 \/ TotalShares(holders, DOMAIN holders) # parent.iou_value) => ~returned'.ok
       /\ (IsVoid(returned') /\ returned'.request.id \in DOMAIN db.iou) =>
            (db.iou[returned'.request.id].iou_void => ~returned'.ok)
       /\ ((IsTransfer(returned') \/ IsVoid(returned')) /\ ~returned'.ok) =>
            /\ db'.iou = db.iou
            /\ db' = db]_vars

TransferFailedAfterVoidingParent ==
    /\ IsTransfer(returned) /\ ~returned.ok
    /\ returned.request.id \in DOMAIN db.iou
    /\ Transfer_valid(returned.request.fields, db.iou[returned.request.id])

Letters == LowerCase \cup UpperCase
NameRefused(name) ==
    \/ \E i \in 1..Len(name) : name[i] \notin Letters \cup Digits \cup {"_", "-", "."}
    \/ ~\E i \in 1..Len(name) : name[i] \in Letters \cup Digits
PricesRefused(details) ==
    ~(0 <= details.offer_buy_price
        /\ details.offer_buy_price < details.offer_sell_price
        /\ details.offer_sell_price <= 1000)
Rejected(r, error) == r.ok /\ r.result = Error(error)

\* C30: a user whose name has a character other than a letter, a digit, '_', '-'
\* or '.', or has no letter or digit, is refused with InvalidUserName; a user whose
\* name is otherwise acceptable and, lower-cased and stripped of punctuation,
\* equals the stripped name of a stored user is refused with CannotCreateUser; an
\* offer created or updated without 0 <= buy price < sell price <= 1000
\* millidollars is refused with InvalidOfferDetails; a request refused with one
\* of these errors changes no table, and no two stored users have the same
\* stripped name.
RejectionsAreTypedAndStoreNothing ==
    [][returned' # None =>
          LET req == returned'.request
          IN  /\ (req.type = "Create" /\ req.item = "User" /\ NameRefused(req.fields.user_name)) =>
                    Rejected(returned', InvalidUserName)
              /\ (req.type = "Create" /\ req.item = "User" /\ ~NameRefused(req.fields.user_name)
                    /\ \E id \in DOMAIN db.user :
                          user_name_stripped(db.user[id].user_name) = user_name_stripped(req.fields.user_name)) =>
                    Rejected(returned', CannotCreateUser)
              /\ (req.type = "Create" /\ req.item = "Offer" /\ PricesRefused(req.fields.offer_details)) =>
                    Rejected(returned', InvalidOfferDetails)
              /\ (req.type = "Update" /\ req.item_update = "Offer" /\ PricesRefused(req.fields)) =>
                    Rejected(returned', InvalidOfferDetails)
              /\ (returned'.ok /\ returned'.result.type = "Error") => db' = db
              /\ \A id1 \in DOMAIN db'.user, id2 \in DOMAIN db'.user :
                    id1 # id2 =>
                       user_name_stripped(db'.user[id1].user_name) # user_name_stripped(db'.user[id2].user_name)]_vars

UserRefusedForItsStrippedName ==
    /\ returned # None
    /\ Rejected(returned, CannotCreateUser)
    /\ Cardinality(DOMAIN db.user) = 2
    /\ DOMAIN db.offer # {}
    /\ \A id \in DOMAIN db.user : db.user[id].user_name # returned.request.fields.user_name

RECURSIVE Commas(_)
Commas(s) == IF s = <<>> THEN 0 ELSE (IF Head(s) = "," THEN 1 ELSE 0) + Commas(Tail(s))

RECURSIVE Join(_)
Join(tokens) ==
    IF tokens = <<>> THEN <<>>
    ELSE IF Len(tokens) = 1 THEN tokens[1]
    ELSE tokens[1] \o <<",">> \o Join(Tail(tokens))

Blank(s) == \A i \in 1..Len(s) : s[i] \in WhiteSpace
Unspaced(s) == SelectSeq(s, LAMBDA ch : ch \notin WhiteSpace)
IsArgList(r) == r # None /\ r.request \in Texts

\* C31: an argument list parsed from a text that is empty or only whitespace has
\* no tokens; parsed from any other text it has one token more than the text has
\* commas, and every token is the piece of the text between two commas without
\* its leading and trailing whitespace, the empty pieces included.
ArgListTokensOfText ==
    IsArgList(returned) =>
        LET text == returned.request
            tokens == returned.result
        IN  /\ Blank(text) => tokens = <<>>
            /\ ~Blank(text) =>
                  /\ Len(tokens) = Commas(text) + 1
                  /\ \A i \in 1..Len(tokens) :
                        /\ \A j \in 1..Len(tokens[i]) : tokens[i][j] # ","
                        /\ tokens[i] # <<>> =>
                              tokens[i][1] \notin WhiteSpace /\ tokens[i][Len(tokens[i])] \notin WhiteSpace
                  /\ Unspaced(Join(tokens)) = Unspaced(text)

ArgListWithEmptyAndTrimmedTokens ==
    /\ IsArgList(returned)
    /\ Len(returned.result) = 3
    /\ returned.result[2] = <<>>
    /\ returned.request[1] \in WhiteSpace
    /\ returned.result[1] = <<"x">>

\* the exposure of a participant over the ledger and the IOUs of the running session
WorkingExposure(player_id) == calc_exposure_from(Exposure_new, ious \o session.ious, player_id)
BidAt(book, contract_id, price, player_id) ==
    /\ contract_id \in DOMAIN book
    /\ price \in DOMAIN book[contract_id].buy
    /\ player_id \in DOMAIN book[contract_id].buy[price]
AskAt(book, contract_id, price, player_id) ==
    /\ contract_id \in DOMAIN book
    /\ price \in DOMAIN book[contract_id].sell
    /\ player_id \in DOMAIN book[contract_id].sell[price]

\* C32: at every iteration of the matching loop, for every participant and every
\* contract in the participant's ranges, the book has a bid of the participant at
\* low exactly when max(0, credit_limit - total_exposure_to_contract_neg) >= 100
\* and an ask at high exactly when max(0, credit_limit -
\* total_exposure_to_contract) >= 100, the exposures being those of the ledger
\* followed by every IOU the session has emitted so far; the book has no other
\* bid or ask.
BookFromWorkingExposures ==
    InLoop =>
        LET book == find_offers(session)
        IN  \A player_id \in PlayerIds, contract_id \in ContractIds :
               LET player == get_player(player_id)
                   e == WorkingExposure(player_id)
                   buy_amount == Max2(0, player.credit_limit - total_exposure_to_contract_neg(e, contract_id))
                   sell_amount == Max2(0, player.credit_limit - total_exposure_to_contract(e, contract_id))
               IN  IF contract_id \in DOMAIN player.ranges
                   THEN LET low == player.ranges[contract_id][1]
                            high == player.ranges[contract_id][2]
                        IN  /\ BidAt(book, contract_id, low, player_id) <=> buy_amount >= 100
                            /\ AskAt(book, contract_id, high, player_id) <=> sell_amount >= 100
                            /\ \A price \in 0..100 :
                                  /\ price # low => ~BidAt(book, contract_id, price, player_id)
                                  /\ price # high => ~AskAt(book, contract_id, price, player_id)
                   ELSE \A price \in 0..100 :
                           /\ ~BidAt(book, contract_id, price, player_id)
                           /\ ~AskAt(book, contract_id, price, player_id)

BookAfterOwnFills ==
    /\ InLoop
    /\ session.ious # <<>>
    /\ LET book == find_offers(session)
       IN  \E player_id \in PlayerIds, contract_id \in ContractIds :
              /\ contract_id \in DOMAIN get_player(player_id).ranges
              /\ get_player(player_id).credit_limit >= 100
              /\ \E iou \in Entries(session.ious) : iou.issuer_id = player_id
              /\ ~BidAt(book, contract_id, get_player(player_id).ranges[contract_id][1], player_id)
              /\ AskAt(book, contract_id, get_player(player_id).ranges[contract_id][2], player_id)

\* the price, the buyer and the seller of the last trade of the running session
LastPrice == Div(Last(session.trades).amount, Last(session.trades).trade_units)
LastBuyer == Last(session.ious).issuer_id
LastSeller == Last(session.ious).holder_id
LastBuyerLow == get_player(LastBuyer).ranges[Last(session.trades).contract_id][1]
LastSellerHigh == get_player(LastSeller).ranges[Last(session.trades).contract_id][2]

\* C33: when the best bid and the best ask of a contract cross, the bid and the
\* ask used for spread and price are the second-best levels only where these
\* still satisfy ask <= bid (both second levels exist and the second ask is
\* strictly below the second bid, or only one side has a second level and it is
\* strictly beyond the other side's best), and the best levels otherwise; so for
\* every trade best ask <= price <= best bid, the best ask being the seller's
\* declared high and the best bid the buyer's declared low, and the spread of the
\* trade is not negative.
PriceBetweenBestLevels ==
    [][(InLoop /\ Len(session'.trades) = Len(session.trades) + 1) =>
          LET book == find_offers(session)
              chosen == Head(find_trades(book))
              contract_id == chosen[3]
              bids == DOMAIN book[contract_id].buy
              asks == DOMAIN book[contract_id].sell
              bid == MaxOf(bids)
              ask == MinOf(asks)
              used_bid == chosen[5]
              used_ask == chosen[7]
              trade == Last(session'.trades)
              price == Div(trade.amount, trade.trade_units)
              buyer == Last(session'.ious).issuer_id
              seller == Last(session'.ious).holder_id
          IN  /\ trade.contract_id = contract_id
              /\ ask <= bid
              /\ IF bids # {bid} /\ asks # {ask}
                 THEN LET bid2 == MaxOf(bids \ {bid})
                          ask2 == MinOf(asks \ {ask})
                      IN  <<used_ask, used_bid>> = IF ask2 < bid2 THEN <<ask2, bid2>> ELSE <<ask, bid>>
                 ELSE IF bids # {bid}
                 THEN LET bid2 == MaxOf(bids \ {bid})
                      IN  <<used_ask, used_bid>> = IF bid2 > ask THEN <<ask, bid2>> ELSE <<ask, bid>>
                 ELSE IF asks # {ask}
                 THEN LET ask2 == MinOf(asks \ {ask})
                      IN  <<used_ask, used_bid>> = IF ask2 < bid THEN <<ask2, bid>> ELSE <<ask, bid>>
                 ELSE <<used_ask, used_bid>> = <<ask, bid>>
              /\ used_ask <= used_bid
              /\ chosen[1] = used_bid - used_ask
              /\ chosen[1] >= 0
              /\ ask <= price /\ price <= bid
              /\ get_player(seller).ranges[contract_id][2] = ask
              /\ get_player(buyer).ranges[contract_id][1] = bid
              /\ get_player(seller).ranges[contract_id][2] <= price
              /\ price <= get_player(buyer).ranges[contract_id][1]]_vars

TradeAtSecondBid ==
    /\ InLoop
    /\ session.trades # <<>>
    /\ LastSellerHigh <= LastPrice /\ LastPrice <= LastBuyerLow
    /\ LastPrice < Div(LastSellerHigh + LastBuyerLow, 2)
    /\ \A player_id \in PlayerIds :
          get_player(player_id).ranges # <<>> =>
             get_player(player_id).ranges[0][2] \notin {v \in 0..100 : LastSellerHigh < v /\ v < LastBuyerLow}

TradeAtSecondBidAndSecondAsk ==
    /\ InLoop
    /\ session.trades # <<>>
    /\ LastPrice # Div(LastSellerHigh + LastBuyerLow, 2)
    /\ \E player_id \in PlayerIds :
          /\ get_player(player_id).ranges # <<>>
          /\ LastSellerHigh < get_player(player_id).ranges[0][2]
          /\ get_player(player_id).ranges[0][2] < LastPrice

\* C34: the buyer and the seller of a trade are different participants: no IOU
\* of a running session and no IOU of the ledger has its issuer as its holder.
BuyerIsNotSeller ==
    /\ \A iou \in Entries(ious) : iou.issuer_id # iou.holder_id
    /\ \A iou \in Entries(session.ious) : iou.issuer_id # iou.holder_id

TradeBetweenQuotersOfBothSides ==
    /\ InLoop
    /\ session.trades # <<>>
    /\ ious # <<>>
    /\ LET book == find_offers(session)
       IN  \E contract_id \in DOMAIN book :
              \E bid \in DOMAIN book[contract_id].buy, ask \in DOMAIN book[contract_id].sell :
                 /\ LastBuyer \in DOMAIN book[contract_id].buy[bid]
                 /\ LastBuyer \in DOMAIN book[contract_id].sell[ask]

RECURSIVE SumOf(_)
SumOf(f) ==
    IF DOMAIN f = {} THEN 0
    ELSE LET x == CHOOSE y \in DOMAIN f : TRUE
         IN  f[x] + SumOf([y \in DOMAIN f \ {x} |-> f[y]])

\* the exposures are those of exposures, a function of the participants
ZeroSumOver(exposures) ==
    /\ SumOf([p \in DOMAIN exposures |-> exposures[p].unconditional]) = 0
    /\ SumOf([p \in DOMAIN exposures |-> Exposure_otherwise_outcome(exposures[p])]) = 0
    /\ \A contract_id \in ContractIds :
          /\ SumOf([p \in DOMAIN exposures |-> exposure(exposures[p], contract_id)]) = 0
          /\ SumOf([p \in DOMAIN exposures |-> neg_exposure(exposures[p], contract_id)]) = 0
          /\ SumOf([p \in DOMAIN exposures |-> Exposure_outcome(exposures[p], contract_id)]) = 0

\* C35: in every state, summed over all participants, the exposure to every
\* contract is 0, the exposure to its negation is 0 and the unconditional balance
\* is 0, so the participants' outcome(c) sum to 0 for every contract c and their
\* otherwise_outcome sum to 0; this holds of the exposures computed from the
\* ledger and of the working exposures of a running session.
MarketIsZeroSum ==
    /\ ZeroSumOver([player_id \in PlayerIds |-> calc_exposure(player_id)])
    /\ pc = "loop" => ZeroSumOver(session.exposures)

ZeroSumWithSettledAndOpenIous ==
    /\ InLoop
    /\ session.trades # <<>>
    /\ \E iou \in Entries(ious) : iou.status.tag = "True"
    /\ \E iou \in Entries(ious) : iou.status.tag = "Void"
    /\ \E player_id \in PlayerIds :
          /\ session.exposures[player_id].unconditional > 0
          /\ \E contract_id \in ContractIds : Exposure_outcome(session.exposures[player_id], contract_id) > 0

\* both exposures of every participant to every contract are within the credit limit
WithinCredit(exposures) ==
    \A player_id \in PlayerIds, contract_id \in ContractIds :
       /\ total_exposure_to_contract(exposures[player_id], contract_id) <= get_player(player_id).credit_limit
       /\ total_exposure_to_contract_neg(exposures[player_id], contract_id) <= get_player(player_id).credit_limit
\* the exposures a session starts from: those of the ledger, which the loop leaves alone
ExposuresAtStart == [player_id \in PlayerIds |-> calc_exposure(player_id)]

\* C36: if at the start of a session every participant's total exposure to every
\* contract and to the negation of every contract is at most the participant's
\* credit limit, then this holds of the working exposures after every trade of
\* the session, also when the trade ended in a failure, and also of the exposure
\* to the negation, which the check after a trade does not test.
SessionPreservesCreditBound ==
    (pc = "loop" /\ WithinCredit(ExposuresAtStart)) => WithinCredit(session.exposures)

SessionNearNegatedBound ==
    /\ InLoop
    /\ WithinCredit(ExposuresAtStart)
    /\ Len(session.trades) >= 2
    /\ \E iou \in Entries(ious) : iou.status.tag = "True"
    /\ \E player_id \in PlayerIds, contract_id \in ContractIds :
          /\ total_exposure_to_contract_neg(session.exposures[player_id], contract_id)
                > get_player(player_id).credit_limit - 100
          /\ total_exposure_to_contract_neg(session.exposures[player_id], contract_id)
                > total_exposure_to_contract(session.exposures[player_id], contract_id)

\* C37: a resolution realises the exposure computed before it: for every
\* participant, after a contract c is resolved to false total_neg_exposure and
\* total_exposure_to_contract(q) for every other contract q are what they were
\* before, and after c is resolved to true total_neg_exposure is what
\* total_exposure_to_contract(c) was before; the exposures are those computed
\* from the ledger.
ResolutionRealisesExposure ==
    [][\A contract_id \in ContractIds :
          (get_contract(contract_id).outcome = None /\ contracts'[contract_id + 1].outcome # None) =>
             \A player_id \in PlayerIds :
                LET before == calc_exposure_from(Exposure_new, ious, player_id)
                    after == calc_exposure_from(Exposure_new, ious', player_id)
                IN  IF contracts'[contract_id + 1].outcome = Some(FALSE)
                    THEN /\ total_neg_exposure(after) = total_neg_exposure(before)
                         /\ \A q \in ContractIds \ {contract_id} :
                               total_exposure_to_contract(after, q) = total_exposure_to_contract(before, q)
                    ELSE total_neg_exposure(after) = total_exposure_to_contract(before, contract_id)]_vars

ResolvedBothWaysOverIous ==
    /\ \E iou \in Entries(ious) : iou.status.tag = "True" /\ iou.status.condition.tag = "If"
    /\ \E iou \in Entries(ious) : iou.status.tag = "True" /\ iou.status.condition.tag = "Not"
    /\ \E player_id \in PlayerIds : total_neg_exposure(calc_exposure(player_id)) > 0

StatusAgrees(iou) ==
    LET condition == iou.status.condition
        resolved == get_contract(condition.contract_id).outcome
    IN  /\ iou.status.tag = "Unknown" <=> resolved = None
        /\ resolved # None =>
              /\ iou.status.tag = "True" <=> (condition.tag = "If") = resolved[1]
              /\ iou.status.tag = "Void" <=> (condition.tag = "If") # resolved[1]

\* C38: in every state an IOU, of the ledger or of the running session, has
\* status Unknown if and only if the contract of its condition is unresolved, and
\* an IOU on a resolved contract is True exactly when its condition (If for an
\* outcome of true, Not for an outcome of false) matches the outcome and Void
\* otherwise.
StatusAgreesWithContract ==
    /\ \A iou \in Entries(ious) : StatusAgrees(iou)
    /\ \A iou \in Entries(session.ious) : StatusAgrees(iou)

SessionBesideResolvedIous ==
    /\ InLoop
    /\ session.ious # <<>>
    /\ \E iou \in Entries(ious) : iou.status.tag = "True"
    /\ \E iou \in Entries(ious) : iou.status.tag = "Void"
    /\ \E iou \in Entries(ious) : iou.status.tag = "Unknown"

\* C39: the worker stops at the first failure.  When the handling of a request
\* ends in an internal error (a void of a void IOU, a transfer that is not valid,
\* an IOU created with a value that is not positive) or a reply cannot be
\* delivered because the caller has gone away, the worker exits at that step, and
\* it exits at no other step; once it has exited it stays so, no request is
\* executed and no table changes, no response is delivered, and every call that
\* carries a request and ends afterwards, whether it was waiting when the worker
\* exited or was made later, ends with status 500, unless its response had been
\* delivered before the exit; a call left waiting does end, with status 500 if its
\* caller is still there.
WorkerStopsAtFirstFailure ==
    [][/\ (worker.pc = "request" /\ worker' # worker) =>
             (worker'.pc = "exited" <=> ~do_request(db, worker.msg.req).ok)
       /\ (worker.pc = "reply" /\ worker' # worker) =>
             (worker'.pc = "exited" <=> calls[worker.msg.reply].oneshot = "closed")
       /\ (worker.pc = "recv" /\ worker' # worker) => worker'.pc = "request"
       /\ worker.pc = "exited" =>
             /\ worker' = worker
             /\ db' = db
             /\ channel = <<>> /\ channel' = <<>>
             /\ history'.executed = history.executed
             /\ history'.delivered = history.delivered
             /\ \A c \in CallIds :
                   /\ calls[c].state = "waiting" => calls[c].oneshot \in {"sent", "canceled"}
                   /\ \A body \in WorkerBodies \ {Malformed} :
                         call_send(c, body) => (calls'[c].state = "done" /\ calls'[c].status = 500)
                   /\ (calls[c].state = "waiting" /\ calls[c].oneshot = "canceled" /\ call_reply(c)) =>
                         calls'[c].status = 500
                   /\ (calls[c].state = "waiting" /\ calls'[c].state = "done" /\ calls'[c].status = 200) =>
                         [call |-> c, response |-> calls'[c].body] \in Entries(history.delivered)]_vars
    /\ \A c \in CallIds :
          (worker.pc = "exited" /\ calls[c].state = "waiting" /\ calls[c].oneshot = "canceled") ~>
             (calls[c].state = "done" /\ (calls[c].status = 500 \/ calls[c].oneshot = "closed"))

RefusedAfterVoidOfVoidIou ==
    /\ worker.pc = "exited"
    /\ db.iou[IouId].iou_void
    /\ Cardinality(DOMAIN db.iou) = 1
    /\ \E c \in CallIds : calls[c].status = 200
    /\ \E c \in CallIds : calls[c].status = 500 /\ c \in Entries(history.received)
    /\ \E c \in CallIds : calls[c].status = 500 /\ c \notin Entries(history.sent)

Children(table, id) == {k \in DOMAIN table : table[k].iou_split = Some(id)}

\* an IOU and the IOUs that descend from it through iou_split
RECURSIVE Descendants(_, _)
Descendants(table, id) ==
    {id} \cup UNION {Descendants(table, k) : k \in Children(table, id)}

NonVoidValue(table, ids) == TotalValue(table, {k \in ids : ~table[k].iou_void})

NoValueCreated(table) ==
    \A id \in DOMAIN table :
       NonVoidValue(table, Descendants(table, id)) <= table[id].iou_value

\* C40: after any sequence of transfers and voids, the total value of the
\* non-void IOUs that descend from an IOU through iou_split, the IOU itself
\* included, is at most the value the IOU was created with; the value of an IOU
\* never changes, an IOU that is void is never split again and never becomes
\* non-void.
TransfersAndVoidsCreateNoValue ==
    /\ NoValueCreated(db.iou)
    /\ [][/\ NoValueCreated(db'.iou)
          /\ \A id \in DOMAIN db.iou :
                /\ id \in DOMAIN db'.iou
                /\ db'.iou[id].iou_value = db.iou[id].iou_value
                /\ db.iou[id].iou_void =>
                      /\ db'.iou[id].iou_void
                      /\ Children(db'.iou, id) = Children(db.iou, id)]_vars

SplitTwiceAndVoided ==
    /\ \E id \in DOMAIN db.iou, k \in DOMAIN db.iou :
          /\ db.iou[id].iou_split # None
          /\ db.iou[k].iou_split = Some(id)
          /\ ~db.iou[k].iou_void
    /\ NonVoidValue(db.iou, Descendants(db.iou, IouId)) \in 1..(OriginalValue - 1)
    /\ IsTransfer(returned) /\ ~returned.ok
    /\ returned.request.id \in DOMAIN db.iou
    /\ db.iou[returned.request.id].iou_void
    /\ transfer_shares_valid(returned.request.fields.holders, DOMAIN returned.request.fields.holders,
                             db.iou[returned.request.id].iou_value)

====
